---- MODULE Spec2Model ----
(***************************************************************************)
(* A model of the CBOR reader of sdk/src/azure/core/az_cbor_reader.c with  *)
(* the bit stack of az_cbor_private.h.                                     *)
(*                                                                         *)
(* Memory is a sequence of bytes `m`; an address is an index into it and   *)
(* NULL is address 0.  An az_span is a record [ptr, size].  A read outside *)
(* the span it is made through still returns the byte that lies at that    *)
(* address (whatever the adjacent memory holds: that memory is part of the *)
(* input chosen in Init), and is recorded in the ghost field `oob`.  A     *)
(* read through a NULL based pointer either ends the process (result       *)
(* CRASH) or yields an arbitrary byte.  An advance that would read beyond  *)
(* the modelled memory is not explored.                                    *)
(*                                                                         *)
(* cbor_reader is the reader under study, created by az_cbor_reader_init   *)
(* or az_cbor_reader_chunked_init; flat_reader is a second reader, created *)
(* by az_cbor_reader_init over the same bytes held contiguously, that      *)
(* receives the same calls.  The fields tokens, frames, closed,            *)
(* pushed_full, popped_empty, failed and strayed of a reader are history:  *)
(* the kinds of the tokens it returned, what was seen of each open         *)
(* container, the container closed last, whether a precondition of the bit *)
(* stack was broken, whether an advance failed, and whether a read left    *)
(* the current buffer.                                                     *)
(***************************************************************************)
EXTENDS Integers, Sequences, FiniteSets, TLC

VARIABLES mem, cbor_reader, result, last_op, prev_reader, flat_reader, flat_result

vars == <<mem, cbor_reader, result, last_op, prev_reader, flat_reader, flat_result>>

---------------------------------------------------------------------------
(* Bounds of the model. *)
MaxLen == 3
MaxNest == 66

(* Program constants. *)
NULL == 0
_az_MAX_cbor_STACK_SIZE == 64
_az_CBOR_STACK_OBJECT == 1
_az_CBOR_STACK_ARRAY == 0

Min(a, b) == IF a < b THEN a ELSE b

---------------------------------------------------------------------------
(* az_span, as far as the reader uses it. *)
Span(p, n) == [ptr |-> p, size |-> n]
AZ_SPAN_EMPTY == Span(NULL, 0)
az_span_size(s) == s.size
az_span_ptr(s) == s.ptr
az_span_slice(s, start_index, end_index) == Span(s.ptr + start_index, end_index - start_index)
az_span_slice_to_end(s, start_index) == Span(s.ptr + start_index, s.size - start_index)

Mapped(m, a) == a \in 1..Len(m)
InBuffer(r, a) == a >= r.cbor_buffer.ptr /\ a < r.cbor_buffer.ptr + r.cbor_buffer.size

(* The byte a read of address a yields; base is the pointer the address was
   computed from. *)
ByteAt(m, r, base, a) ==
  IF base = NULL THEN r.nullv
  ELSE IF Mapped(m, a) THEN m[a] ELSE 0

(* The ghost record of a read of address a. *)
Touch(m, r, base, a) ==
  IF base = NULL THEN [r EXCEPT !.nullread = TRUE]
  ELSE [r EXCEPT !.oob = @ \/ ~InBuffer(r, a), !.unmapped = @ \/ ~Mapped(m, a)]

isdigit(b) == b >= 48 /\ b <= 57

(* az_span_ptr(token)[off] *)
TokByte(m, r, token, off) == ByteAt(m, r, token.ptr, token.ptr + off)
TokTouch(m, r, token, off) == Touch(m, r, token.ptr, token.ptr + off)

---------------------------------------------------------------------------
(* _az_cbor_bit_stack: the 64-bit word is the set of the positions of its
   one bits (bit 0 is the low bit). *)
ShiftRight(stack) == {i - 1 : i \in stack \ {0}}
ShiftLeft(stack) == {i + 1 : i \in {j \in stack : j + 1 < _az_MAX_cbor_STACK_SIZE}}

_az_cbor_stack_peek(r) ==
  IF 0 \in r.az_cbor_stack THEN _az_CBOR_STACK_OBJECT ELSE _az_CBOR_STACK_ARRAY

(* A variant that leaves the low bit clear whatever the item is. *)
StackPushMutant(r, item) ==
  [r EXCEPT !.current_depth = @ + 1,
            !.az_cbor_stack = ShiftLeft(@),
            !.pushed_full = @ \/ ~(r.current_depth >= 0
                                    /\ r.current_depth < _az_MAX_cbor_STACK_SIZE)]

_az_cbor_stack_push(r, item) ==
  [r EXCEPT !.current_depth = @ + 1,
            !.az_cbor_stack = ShiftLeft(@) \cup (IF item = 1 THEN {0} ELSE {}),
            !.pushed_full = @ \/ ~(r.current_depth >= 0
                                    /\ r.current_depth < _az_MAX_cbor_STACK_SIZE)]

StackPopMutant(r) == r
_az_cbor_stack_pop(r) ==
  IF r.current_depth # 0
  THEN [r EXCEPT !.az_cbor_stack = ShiftRight(@), !.current_depth = @ - 1,
                 !.popped_empty = @ \/ ~(r.current_depth > 0
                                   /\ r.current_depth <= _az_MAX_cbor_STACK_SIZE)]
  ELSE [r EXCEPT !.popped_empty = TRUE]

(* The value _az_cbor_stack_pop returns: the low bit after the shift. *)
_az_cbor_stack_pop_value(r) == _az_cbor_stack_peek(_az_cbor_stack_pop(r))

---------------------------------------------------------------------------
(* What is recorded of a container between its Begin and its End token: obj
   tells a map from an array, n is the count of an immediate-form header (-1
   for the other forms), names and values count the PropertyName tokens and
   the complete values returned inside it, ok tells that no advance failed
   while it was open. *)
NoFrame == [obj |-> FALSE, n |-> -1, names |-> 0, values |-> 0, ok |-> FALSE]

(* element_type[256] and element_len[256]: an array is the function of its
   nonzero entries; the compound literal of the init functions zeroes both. *)
ElementAt(a, d) == IF d \in DOMAIN a THEN a[d] ELSE 0

ElementSet(a, d, v) ==
  [x \in (DOMAIN a \cup {d}) \ (IF v = 0 THEN {d} ELSE {}) |-> IF x = d THEN v ELSE a[x]]

(* The reader after az_cbor_reader_init / az_cbor_reader_chunked_init. *)
ReaderDefault(cbor_buffer, cbor_buffers, number_of_buffers) ==
  [ kind |-> "AZ_CBOR_TOKEN_NONE",
    slice |-> AZ_SPAN_EMPTY,
    size |-> 0,
    is_multisegment |-> FALSE,
    start_buffer_index |-> -1,
    start_buffer_offset |-> -1,
    end_buffer_index |-> -1,
    end_buffer_offset |-> -1,
    cbor_buffer |-> cbor_buffer,
    cbor_buffers |-> cbor_buffers,
    number_of_buffers |-> number_of_buffers,
    buffer_index |-> 0,
    bytes_consumed |-> 0,
    total_bytes_consumed |-> 0,
    is_complex_cbor |-> FALSE,
    element_type |-> <<>>,
    element_len |-> <<>>,
    az_cbor_stack |-> {},
    current_depth |-> 0,
    tokens |-> <<>>,
    frames |-> <<>>,
    closed |-> NoFrame,
    pushed_full |-> FALSE,
    popped_empty |-> FALSE,
    failed |-> FALSE,
    strayed |-> FALSE,
    oob |-> FALSE,
    unmapped |-> FALSE,
    nullread |-> FALSE,
    nullv |-> 0 ]

az_cbor_reader_init(cbor_buffer) == ReaderDefault(cbor_buffer, <<AZ_SPAN_EMPTY>>, 1)

az_cbor_reader_chunked_init(cbor_buffers, number_of_buffers) ==
  ReaderDefault(cbor_buffers[1], cbor_buffers, number_of_buffers)

_get_remaining_cbor(r) == az_span_slice_to_end(r.cbor_buffer, r.bytes_consumed)

IsMultisegment(start_index, end_index) == start_index # -1 /\ start_index < end_index

_az_cbor_reader_update_state(r, token_kind, token_slice, current_segment_consumed, consumed) ==
  LET bc == r.bytes_consumed + current_segment_consumed IN
  [r EXCEPT !.kind = token_kind,
            !.size = consumed,
            !.bytes_consumed = bc,
            !.total_bytes_consumed = @ + current_segment_consumed,
            !.end_buffer_index = r.buffer_index,
            !.end_buffer_offset = bc,
            !.is_multisegment = IsMultisegment(r.start_buffer_index, r.buffer_index),
            !.slice = token_slice]

Ret(r, res) == [r |-> r, res |-> res]
Failed(res) == res # "AZ_OK"

(* A variant that records the segment it moves to as the start of the token. *)
GetNextBufferMutant(r, skip_whitespace) ==
  IF r.buffer_index >= r.number_of_buffers - 1
  THEN [r |-> r, res |-> "AZ_ERROR_UNEXPECTED_END", remaining |-> AZ_SPAN_EMPTY]
  ELSE
    LET r1 == IF ~skip_whitespace /\ r.start_buffer_index = -1
              THEN [r EXCEPT !.start_buffer_index = r.buffer_index + 1,
                             !.start_buffer_offset = 0]
              ELSE r
        r2 == [r1 EXCEPT !.buffer_index = @ + 1,
                         !.cbor_buffer = r.cbor_buffers[r.buffer_index + 2],
                         !.bytes_consumed = 0]
        place_holder == _get_remaining_cbor(r2)
    IN IF az_span_size(place_holder) < 1
       THEN [r |-> r2, res |-> "AZ_ERROR_UNEXPECTED_END", remaining |-> AZ_SPAN_EMPTY]
       ELSE [r |-> r2, res |-> "AZ_OK", remaining |-> place_holder]

_az_cbor_reader_get_next_buffer(r, skip_whitespace) ==
  IF r.buffer_index >= r.number_of_buffers - 1
  THEN [r |-> r, res |-> "AZ_ERROR_UNEXPECTED_END", remaining |-> AZ_SPAN_EMPTY]
  ELSE
    LET r1 == IF ~skip_whitespace /\ r.start_buffer_index = -1
              THEN [r EXCEPT !.start_buffer_index = r.buffer_index,
                             !.start_buffer_offset = r.bytes_consumed]
              ELSE r
        r2 == [r1 EXCEPT !.buffer_index = @ + 1,
                         !.cbor_buffer = r.cbor_buffers[r.buffer_index + 2],
                         !.bytes_consumed = 0]
        place_holder == _get_remaining_cbor(r2)
    IN IF az_span_size(place_holder) < 1
       THEN [r |-> r2, res |-> "AZ_ERROR_UNEXPECTED_END", remaining |-> AZ_SPAN_EMPTY]
       ELSE [r |-> r2, res |-> "AZ_OK", remaining |-> place_holder]

(* A variant that consumes a byte for the End token. *)
ContainerEndMutant(r, token_kind) ==
  IF \/ (token_kind = "AZ_CBOR_TOKEN_END_OBJECT"
          /\ _az_cbor_stack_peek(r) # _az_CBOR_STACK_OBJECT)
     \/ (token_kind = "AZ_CBOR_TOKEN_END_ARRAY"
          /\ _az_cbor_stack_peek(r) # _az_CBOR_STACK_ARRAY)
  THEN Ret(r, "AZ_ERROR_UNEXPECTED_CHAR")
  ELSE Ret(_az_cbor_reader_update_state(_az_cbor_stack_pop(r), token_kind,
              az_span_slice(_get_remaining_cbor(r), 0, 1), 1, 1),
           "AZ_OK")

_az_cbor_reader_process_container_end(r, token_kind) ==
  IF \/ (token_kind = "AZ_CBOR_TOKEN_END_OBJECT"
          /\ _az_cbor_stack_peek(r) # _az_CBOR_STACK_OBJECT)
     \/ (token_kind = "AZ_CBOR_TOKEN_END_ARRAY"
          /\ _az_cbor_stack_peek(r) # _az_CBOR_STACK_ARRAY)
  THEN Ret(r, "AZ_ERROR_UNEXPECTED_CHAR")
  ELSE
    LET token == _get_remaining_cbor(r)
        r1 == _az_cbor_stack_pop(r)
    IN Ret(_az_cbor_reader_update_state(r1, token_kind,
              IF az_span_size(token) # 0 THEN az_span_slice(token, 0, 1) ELSE AZ_SPAN_EMPTY,
              0, 1),
           "AZ_OK")

DepthLimitAboveMutant == _az_MAX_cbor_STACK_SIZE + 1
DepthLimitBelowMutant == _az_MAX_cbor_STACK_SIZE - 1
DepthLimit == _az_MAX_cbor_STACK_SIZE

_az_cbor_reader_process_container_start(r, token_kind, container_kind) ==
  IF r.current_depth >= DepthLimit
  THEN Ret(r, "AZ_ERROR_CBOR_NESTING_OVERFLOW")
  ELSE
    LET token == _get_remaining_cbor(r)
        r1 == _az_cbor_stack_push(r, container_kind)
    IN Ret(_az_cbor_reader_update_state(r1, token_kind, az_span_slice(token, 0, 1), 1, 1),
           "AZ_OK")

(* _az_cbor_get_length: the branches are tried in the order of the source, so
   that every type_id above 0x17 takes the one-byte branch. *)
_az_cbor_get_length(m, r, type_id, token_ptr) ==
  IF type_id >= 0 /\ type_id <= 23
  THEN [r |-> r, res |-> "AZ_OK", element_length |-> type_id, token_header_len |-> 0]
  ELSE IF type_id >= 24
  THEN [r |-> Touch(m, r, token_ptr, token_ptr + 1), res |-> "AZ_OK",
        element_length |-> ByteAt(m, r, token_ptr, token_ptr + 1),
        token_header_len |-> 1]
  ELSE IF type_id >= 25
  THEN [r |-> Touch(m, Touch(m, r, token_ptr, token_ptr + 1), token_ptr, token_ptr + 2),
        res |-> "AZ_OK",
        element_length |-> ByteAt(m, r, token_ptr, token_ptr + 1) * 256
                             + ByteAt(m, r, token_ptr, token_ptr + 2),
        token_header_len |-> 2]
  ELSE IF type_id >= 26
  THEN [r |-> Touch(m, Touch(m, Touch(m, Touch(m, r, token_ptr, token_ptr + 1),
                 token_ptr, token_ptr + 2), token_ptr, token_ptr + 3), token_ptr, token_ptr + 4),
        res |-> "AZ_OK",
        element_length |-> ByteAt(m, r, token_ptr, token_ptr + 1) * 16777216
                             + ByteAt(m, r, token_ptr, token_ptr + 2) * 65536
                             + ByteAt(m, r, token_ptr, token_ptr + 3) * 256
                             + ByteAt(m, r, token_ptr, token_ptr + 4),
        token_header_len |-> 4]
  ELSE [r |-> r, res |-> "AZ_ERROR_UNEXPECTED_CHAR", element_length |-> 0,
        token_header_len |-> 0]

(* _az_cbor_reader_process_string, in three parts: g1 is the buffer the
   payload ends in, gl the decoded header, g0 the buffer the header is in. *)
_az_cbor_reader_process_string_update(g1, token_header_len, string_length, current_index) ==
  IF Failed(g1.res) THEN Ret(g1.r, g1.res)
  ELSE Ret(_az_cbor_reader_update_state(g1.r, "AZ_CBOR_TOKEN_STRING",
             az_span_slice(g1.remaining, token_header_len + 1, current_index + 1),
             current_index + 1, string_length),
           "AZ_OK")

StringSpills(current_index, remaining_size) == current_index >= remaining_size

_az_cbor_reader_process_string_payload(token, gl) ==
  IF Failed(gl.res) THEN Ret(gl.r, gl.res)
  ELSE IF StringSpills(gl.token_header_len + gl.element_length,
                       az_span_size(token) - gl.token_header_len)
  THEN _az_cbor_reader_process_string_update(_az_cbor_reader_get_next_buffer(gl.r, FALSE),
          gl.token_header_len, gl.element_length, 0)
  ELSE _az_cbor_reader_process_string_update([r |-> gl.r, res |-> "AZ_OK", remaining |-> token],
          gl.token_header_len, gl.element_length, gl.token_header_len + gl.element_length)

_az_cbor_reader_process_string_header(m, g0) ==
  IF Failed(g0.res) THEN Ret(g0.r, g0.res)
  ELSE _az_cbor_reader_process_string_payload(g0.remaining,
          _az_cbor_get_length(m, TokTouch(m, g0.r, g0.remaining, 0),
                              (TokByte(m, g0.r, g0.remaining, 0) - 96) % 256,
                              az_span_ptr(g0.remaining)))

_az_cbor_reader_process_string(m, r) ==
  _az_cbor_reader_process_string_header(m,
     IF az_span_size(_get_remaining_cbor(r)) < 1
     THEN _az_cbor_reader_get_next_buffer(r, FALSE)
     ELSE [r |-> r, res |-> "AZ_OK", remaining |-> _get_remaining_cbor(r)])

_az_cbor_reader_process_property_name(m, r) ==
  LET s == _az_cbor_reader_process_string(m, r) IN
  IF Failed(s.res) THEN s
  ELSE Ret([s.r EXCEPT !.kind = "AZ_CBOR_TOKEN_PROPERTY_NAME"], "AZ_OK")

---------------------------------------------------------------------------
(* The textual number path of _az_cbor_reader_process_number.  The local
   variables of the C function are the fields of a record: token,
   current_consumed (cc), total_consumed (total), next_byte (nb); done is set
   by a return statement and res is the value returned. *)
cbor_delimiters == {44, 125, 93, 32, 10, 13, 9}

NumSt(r, token, cc, total, nb, done, res) ==
  [r |-> r, token |-> token, cc |-> cc, total |-> total, nb |-> nb, done |-> done, res |-> res]

(* The number of leading digits among the first n bytes at address p. *)
RECURSIVE DigitRun(_, _, _, _)
DigitRun(m, r, p, n) ==
  IF n <= 0 \/ ~isdigit(ByteAt(m, r, p, p)) THEN 0 ELSE 1 + DigitRun(m, r, p + 1, n - 1)

(* The bytes the digit scan reads: the digits and the byte that stops it. *)
RECURSIVE TouchRun(_, _, _, _)
TouchRun(m, r, p, n) ==
  IF n <= 0 THEN r ELSE TouchRun(m, Touch(m, r, p, p), p + 1, n - 1)

(* The loop of _az_cbor_reader_consume_digits: counter digits were found in
   current; g is what _az_cbor_reader_get_next_buffer returns when current
   holds digits only. *)
RECURSIVE _az_cbor_reader_consume_digits_loop(_, _, _, _, _, _)
_az_cbor_reader_consume_digits_next(m, r1, g, token, cc, total, counter, whole) ==
  IF whole
  THEN IF ~Failed(g.res)
       THEN _az_cbor_reader_consume_digits_loop(m, g.r, g.remaining, g.remaining, 0,
                                                total + counter)
       ELSE [r |-> g.r, token |-> token, cc |-> cc + counter, total |-> total + counter]
  ELSE [r |-> r1, token |-> token, cc |-> cc + counter, total |-> total + counter]

_az_cbor_reader_consume_digits_scanned(m, r1, token, current, cc, total, counter) ==
  _az_cbor_reader_consume_digits_next(m, r1, _az_cbor_reader_get_next_buffer(r1, FALSE),
     token, cc, total, counter, counter = az_span_size(current))

_az_cbor_reader_consume_digits_count(m, r, token, current, cc, total, counter) ==
  _az_cbor_reader_consume_digits_scanned(m,
     TouchRun(m, r, az_span_ptr(current), Min(counter + 1, az_span_size(current))),
     token, current, cc, total, counter)

_az_cbor_reader_consume_digits_loop(m, r, token, current, cc, total) ==
  _az_cbor_reader_consume_digits_count(m, r, token, current, cc, total,
     DigitRun(m, r, az_span_ptr(current), az_span_size(current)))

ConsumedDigits(st, c) == [st EXCEPT !.r = c.r, !.token = c.token, !.cc = c.cc, !.total = c.total]

_az_cbor_reader_consume_digits(m, st) ==
  ConsumedDigits(st, _az_cbor_reader_consume_digits_loop(m, st.r, st.token,
                        az_span_slice_to_end(st.token, st.cc), st.cc, st.total))

_az_cbor_reader_update_number_state_if_single_value(r, token_slice, current_consumed, total_consumed) ==
  IF r.is_complex_cbor
  THEN Ret(r, "AZ_ERROR_UNEXPECTED_END")
  ELSE Ret(_az_cbor_reader_update_state(r, "AZ_CBOR_TOKEN_NUMBER", token_slice,
                                        current_consumed, total_consumed), "AZ_OK")

SameBuffer(r, token) == [r |-> r, res |-> "AZ_OK", remaining |-> token]

(* _az_validate_next_byte_is_digit: g.remaining is the span whose first byte
   is tested, moved tells that it is a new buffer. *)
_az_validate_next_byte_is_digit_test(m, st, g, moved) ==
  IF ~isdigit(TokByte(m, g.r, g.remaining, 0))
  THEN [st EXCEPT !.r = TokTouch(m, g.r, g.remaining, 0),
                  !.token = IF moved THEN g.remaining ELSE @,
                  !.cc = IF moved THEN 0 ELSE @,
                  !.done = TRUE, !.res = "AZ_ERROR_UNEXPECTED_CHAR"]
  ELSE [st EXCEPT !.r = TokTouch(m, g.r, g.remaining, 0),
                  !.token = IF moved THEN g.remaining ELSE @,
                  !.cc = IF moved THEN 0 ELSE @]

_az_validate_next_byte_is_digit_moved(m, st, g) ==
  IF Failed(g.res) THEN [st EXCEPT !.r = g.r, !.done = TRUE, !.res = g.res]
  ELSE _az_validate_next_byte_is_digit_test(m, st, g, TRUE)

_az_validate_next_byte_is_digit(m, st) ==
  IF az_span_size(az_span_slice_to_end(st.token, st.cc)) < 1
  THEN _az_validate_next_byte_is_digit_moved(m, st,
          _az_cbor_reader_get_next_buffer(st.r, FALSE))
  ELSE _az_validate_next_byte_is_digit_test(m, st,
          SameBuffer(st.r, az_span_slice_to_end(st.token, st.cc)), FALSE)

(* The end of a run of digits: _az_finished_consuming_cbor_number on the byte
   at offset cc of the buffer g.remaining. *)
NumberTailTest(m, st, g, cc, expected_next_bytes) ==
  IF TokByte(m, g.r, g.remaining, cc) \in cbor_delimiters
  THEN [st EXCEPT !.r = _az_cbor_reader_update_state(TokTouch(m, g.r, g.remaining, cc),
                           "AZ_CBOR_TOKEN_NUMBER", az_span_slice(g.remaining, 0, cc), cc,
                           st.total),
                  !.token = g.remaining, !.cc = cc,
                  !.nb = TokByte(m, g.r, g.remaining, cc),
                  !.done = TRUE, !.res = "AZ_OK"]
  ELSE IF TokByte(m, g.r, g.remaining, cc) \notin expected_next_bytes
  THEN [st EXCEPT !.r = TokTouch(m, g.r, g.remaining, cc),
                  !.token = g.remaining, !.cc = cc,
                  !.nb = TokByte(m, g.r, g.remaining, cc),
                  !.done = TRUE, !.res = "AZ_ERROR_UNEXPECTED_CHAR"]
  ELSE [st EXCEPT !.r = TokTouch(m, g.r, g.remaining, cc),
                  !.token = g.remaining, !.cc = cc,
                  !.nb = TokByte(m, g.r, g.remaining, cc)]

NumberSingleValue(st, u) == [st EXCEPT !.r = u.r, !.done = TRUE, !.res = u.res]

(* The segment is exhausted after the digits: g is what
   _az_cbor_reader_get_next_buffer returned. *)
NumberTailMoved(m, st, g, expected_next_bytes) ==
  IF Failed(g.res)
  THEN NumberSingleValue(st,
          _az_cbor_reader_update_number_state_if_single_value(g.r,
             az_span_slice(st.token, 0, st.cc), st.cc, st.total))
  ELSE NumberTailTest(m, st, g, 0, expected_next_bytes)

NumberTail(m, st, expected_next_bytes) ==
  IF st.cc >= az_span_size(st.token)
  THEN NumberTailMoved(m, st, _az_cbor_reader_get_next_buffer(st.r, FALSE),
                       expected_next_bytes)
  ELSE NumberTailTest(m, st, SameBuffer(st.r, st.token), st.cc, expected_next_bytes)

(* if (next_byte == '-') ... : v is the state after the digit test. *)
NumberSignDigit(m, v) ==
  IF v.done THEN v
  ELSE [v EXCEPT !.nb = TokByte(m, v.r, v.token, v.cc),
                 !.r = TokTouch(m, v.r, v.token, v.cc)]

NumberSign(m, st) ==
  IF st.nb # 45 THEN st
  ELSE NumberSignDigit(m,
          _az_validate_next_byte_is_digit(m, [st EXCEPT !.total = @ + 1, !.cc = @ + 1]))

(* if (next_byte == '0') ... else ... : the integer part *)
NumberInteger(m, st) ==
  IF st.done THEN st
  ELSE IF st.nb = 48
  THEN NumberTail(m, [st EXCEPT !.total = @ + 1, !.cc = @ + 1], {46, 101, 69})
  ELSE NumberTail(m, _az_cbor_reader_consume_digits(m, st), {46, 101, 69})

(* if (next_byte == '.') ... : v is the state after the digit test. *)
NumberFractionDigits(m, v) ==
  IF v.done THEN v
  ELSE NumberTail(m, _az_cbor_reader_consume_digits(m, v), {101, 69})

NumberFraction(m, st) ==
  IF st.done \/ st.nb # 46 THEN st
  ELSE NumberFractionDigits(m,
          _az_validate_next_byte_is_digit(m, [st EXCEPT !.total = @ + 1, !.cc = @ + 1]))

(* Past 'e'/'E': an optional sign and the digits of the exponent. *)
NumberExponentTail(m, st3) ==
  IF st3.done THEN st3
  ELSE NumberTail(m, _az_cbor_reader_consume_digits(m, st3), {})

NumberExponentDigits(m, st2) ==
  IF st2.nb = 45 \/ st2.nb = 43
  THEN NumberExponentTail(m,
          _az_validate_next_byte_is_digit(m, [st2 EXCEPT !.total = @ + 1, !.cc = @ + 1]))
  ELSE NumberExponentTail(m, st2)

NumberExponentAt(m, st1, g, cc) ==
  NumberExponentDigits(m,
     [st1 EXCEPT !.r = TokTouch(m, g.r, g.remaining, cc), !.token = g.remaining,
                 !.cc = cc, !.nb = TokByte(m, g.r, g.remaining, cc)])

NumberExponentMoved(m, st1, g) ==
  IF Failed(g.res) THEN [st1 EXCEPT !.r = g.r, !.done = TRUE, !.res = g.res]
  ELSE NumberExponentAt(m, st1, g, 0)

NumberExponentSign(m, st1) ==
  IF st1.cc >= az_span_size(st1.token)
  THEN NumberExponentMoved(m, st1, _az_cbor_reader_get_next_buffer(st1.r, FALSE))
  ELSE NumberExponentAt(m, st1, SameBuffer(st1.r, st1.token), st1.cc)

NumberExponent(m, st) ==
  IF st.done THEN st
  ELSE NumberExponentSign(m, [st EXCEPT !.total = @ + 1, !.cc = @ + 1])

NumberResult(st) == Ret(st.r, st.res)

_az_cbor_reader_process_number(m, r) ==
  NumberResult(
    NumberExponent(m, NumberFraction(m, NumberInteger(m, NumberSign(m,
      NumSt(TokTouch(m, r, _get_remaining_cbor(r), 0), _get_remaining_cbor(r), 0, 0,
            TokByte(m, r, _get_remaining_cbor(r), 0), FALSE, "AZ_OK"))))))

---------------------------------------------------------------------------
(* _az_cbor_reader_process_literal: literal is the sequence of the bytes of
   "false", "true" or "null". *)
LiteralFalse == <<102, 97, 108, 115, 101>>
LiteralTrue == <<116, 114, 117, 101>>
LiteralNull == <<110, 117, 108, 108>>

SpanEqualsLiteral(m, r, token, literal, from, n) ==
  \A i \in 0..(n - 1) : TokByte(m, r, token, i) = literal[from + i + 1]

RECURSIVE _az_cbor_reader_process_literal_loop(_, _, _, _, _, _)
_az_cbor_reader_process_literal_loop(m, r, token0, literal, kind, already_matched) ==
  LET token_size == az_span_size(token0)
      max_comparable_size == Min(token_size, Len(literal) - already_matched)
      token == az_span_slice(token0, 0, max_comparable_size)
      r1 == TouchRun(m, r, token.ptr, max_comparable_size)
  IN IF ~SpanEqualsLiteral(m, r, token, literal, already_matched, max_comparable_size)
     THEN Ret(r1, "AZ_ERROR_UNEXPECTED_CHAR")
     ELSE IF already_matched + max_comparable_size = Len(literal)
     THEN Ret(_az_cbor_reader_update_state(r1, kind, token, max_comparable_size, Len(literal)),
              "AZ_OK")
     ELSE LET g == _az_cbor_reader_get_next_buffer(r1, FALSE)
          IN IF Failed(g.res) THEN Ret(g.r, g.res)
             ELSE _az_cbor_reader_process_literal_loop(m, g.r, g.remaining, literal, kind,
                                                       already_matched + max_comparable_size)

_az_cbor_reader_process_literal(m, r, literal, kind) ==
  _az_cbor_reader_process_literal_loop(m, r, _get_remaining_cbor(r), literal, kind, 0)

(* The element count and container kind recorded at the depth the reader is at
   after the container start was processed (also when it failed). *)
(* A variant that records every container as a map. *)
RecordContainerAsMapMutant(r, type, len) ==
  [r EXCEPT !.element_type = ElementSet(@, r.current_depth, 160),
            !.element_len = ElementSet(@, r.current_depth, len)]

(* A variant that records every container as an array. *)
RecordContainerTypeMutant(r, type, len) ==
  [r EXCEPT !.element_type = ElementSet(@, r.current_depth, 128),
            !.element_len = ElementSet(@, r.current_depth, len)]

RecordContainerMutant(r, type, len) ==
  [r EXCEPT !.element_type = ElementSet(@, r.current_depth, type),
            !.element_len = [d \in DOMAIN @ \cup {r.current_depth} |-> len]]
RecordContainer(r, type, len) ==
  [r EXCEPT !.element_type = ElementSet(@, r.current_depth, type),
            !.element_len = ElementSet(@, r.current_depth, len)]

(* A variant that steps over the byte it rejects. *)
UnrecognisedHeadMutant(r) ==
  Ret([r EXCEPT !.bytes_consumed = @ + 1, !.total_bytes_consumed = @ + 1],
      "AZ_ERROR_UNEXPECTED_CHAR")

(* The head byte matched none of the forms of a value: the reader is left
   as it is. *)
UnrecognisedHead(r) == Ret(r, "AZ_ERROR_UNEXPECTED_CHAR")

_az_cbor_reader_process_value(m, r, next_byte) ==
  IF next_byte >= 96 /\ next_byte <= 127
  THEN LET gl == _az_cbor_get_length(m, r, (next_byte - 128) % 256, az_span_ptr(r.slice))
       IN _az_cbor_reader_process_string(m, gl.r)
  ELSE IF next_byte >= 160 /\ next_byte <= 191
  THEN LET gl == _az_cbor_get_length(m, r, (next_byte - 160) % 256, az_span_ptr(r.slice))
           cs == _az_cbor_reader_process_container_start(gl.r, "AZ_CBOR_TOKEN_BEGIN_OBJECT",
                                                         _az_CBOR_STACK_OBJECT)
       IN Ret(RecordContainer(cs.r, 160, gl.element_length), cs.res)
  ELSE IF next_byte >= 128 /\ next_byte <= 159
  THEN LET gl == _az_cbor_get_length(m, r, (next_byte - 128) % 256, az_span_ptr(r.slice))
           cs == _az_cbor_reader_process_container_start(gl.r, "AZ_CBOR_TOKEN_BEGIN_ARRAY",
                                                         _az_CBOR_STACK_ARRAY)
       IN Ret(RecordContainer(cs.r, 128, gl.element_length), cs.res)
  ELSE IF isdigit(next_byte) \/ next_byte = 45
  THEN _az_cbor_reader_process_number(m, r)
  ELSE IF next_byte = 102
  THEN _az_cbor_reader_process_literal(m, r, LiteralFalse, "AZ_CBOR_TOKEN_FALSE")
  ELSE IF next_byte = 116
  THEN _az_cbor_reader_process_literal(m, r, LiteralTrue, "AZ_CBOR_TOKEN_TRUE")
  ELSE IF next_byte = 110
  THEN _az_cbor_reader_process_literal(m, r, LiteralNull, "AZ_CBOR_TOKEN_NULL")
  ELSE UnrecognisedHead(r)

_az_cbor_reader_read_first_token(m, r, cbor, first_byte) ==
  IF first_byte >= 160 /\ first_byte < 187
  THEN LET r1 == _az_cbor_stack_push(r, _az_CBOR_STACK_OBJECT)
           gl == _az_cbor_get_length(m, r1, first_byte - 160, az_span_ptr(cbor))
           len_bytes == gl.token_header_len
           r2 == RecordContainer(gl.r, 160, gl.element_length)
           r3 == _az_cbor_reader_update_state(r2, "AZ_CBOR_TOKEN_BEGIN_OBJECT",
                    az_span_slice(cbor, 0, 1 + len_bytes), len_bytes + 1, len_bytes + 1)
       IN IF Failed(gl.res) THEN Ret(gl.r, gl.res)
          ELSE Ret([r3 EXCEPT !.is_complex_cbor = TRUE], "AZ_OK")
  ELSE IF first_byte >= 128 /\ first_byte < 159
  THEN LET r1 == _az_cbor_stack_push(r, _az_CBOR_STACK_ARRAY)
           gl == _az_cbor_get_length(m, r1, first_byte - 128, az_span_ptr(cbor))
           len_bytes == gl.token_header_len
           r2 == RecordContainer(gl.r, 128, gl.element_length)
           r3 == _az_cbor_reader_update_state(r2, "AZ_CBOR_TOKEN_BEGIN_ARRAY",
                    az_span_slice(cbor, 0, 1 + len_bytes), len_bytes, len_bytes)
       IN IF Failed(gl.res) THEN Ret(gl.r, gl.res)
          ELSE Ret([r3 EXCEPT !.is_complex_cbor = TRUE,
                              !.bytes_consumed = @ + (1 + len_bytes)], "AZ_OK")
  ELSE _az_cbor_reader_process_value(m, r, first_byte)

(* ref_cbor_reader->_internal.element_len[current_depth]--; *)
ElementConsumedMutant(r) == r
ElementConsumed(r) ==
  [r EXCEPT !.element_len = ElementSet(@, r.current_depth, ElementAt(@, r.current_depth) - 1)]

(* A variant that forgets the token when it reports the end. *)
ReaderDoneMutant(r) == Ret([r EXCEPT !.kind = "AZ_CBOR_TOKEN_NONE"], "AZ_ERROR_JSON_READER_DONE")

(* The root value is complete: the reader is left as it is. *)
ReaderDone(r) == Ret(r, "AZ_ERROR_JSON_READER_DONE")

ReaderDoneAtDepthZeroMutant(r) == FALSE
ReaderDoneAtDepthZero(r) == r.current_depth = 0

_az_cbor_reader_process_next_byte(m, r, next_byte) ==
  IF ReaderDoneAtDepthZero(r)
  THEN ReaderDone(r)
  ELSE IF ElementAt(r.element_len, r.current_depth) # 0
  THEN LET r1 == ElementConsumed(r)
       IN IF ElementAt(r1.element_type, r1.current_depth) = 160
          THEN _az_cbor_reader_process_property_name(m, r1)
          ELSE _az_cbor_reader_process_value(m, r1, next_byte)
  ELSE IF ElementAt(r.element_type, r.current_depth) = 160
  THEN _az_cbor_reader_process_container_end(r, "AZ_CBOR_TOKEN_END_OBJECT")
  ELSE IF ElementAt(r.element_type, r.current_depth) = 128
  THEN _az_cbor_reader_process_container_end(r, "AZ_CBOR_TOKEN_END_ARRAY")
  ELSE Ret(r, "AZ_ERROR_UNEXPECTED_CHAR")

az_cbor_reader_next_token(m, r) ==
  LET cbor == r.cbor_buffer IN
  IF az_span_size(cbor) < 1
  THEN IF r.kind = "AZ_CBOR_TOKEN_NONE" \/ r.current_depth # 0
       THEN Ret(r, "AZ_ERROR_UNEXPECTED_END")
       ELSE Ret(r, "AZ_ERROR_CBOR_READER_DONE")
  ELSE
    LET r0 == [r EXCEPT !.start_buffer_index = -1, !.start_buffer_offset = -1,
                        !.end_buffer_index = -1, !.end_buffer_offset = -1]
        first_byte == ByteAt(m, r0, cbor.ptr, cbor.ptr + r0.bytes_consumed)
        r1 == Touch(m, r0, cbor.ptr, cbor.ptr + r0.bytes_consumed)
        depth == r1.current_depth
    IN CASE r1.kind = "AZ_CBOR_TOKEN_NONE" ->
              _az_cbor_reader_read_first_token(m, r1, cbor, first_byte)
         [] r1.kind = "AZ_CBOR_TOKEN_BEGIN_OBJECT" ->
              IF ElementAt(r1.element_len, depth) = 0
              THEN _az_cbor_reader_process_container_end(r1, "AZ_CBOR_TOKEN_END_OBJECT")
              ELSE _az_cbor_reader_process_property_name(m, ElementConsumed(r1))
         [] r1.kind = "AZ_CBOR_TOKEN_BEGIN_ARRAY" ->
              IF ElementAt(r1.element_len, depth) = 0
              THEN _az_cbor_reader_process_container_end(r1, "AZ_CBOR_TOKEN_END_ARRAY")
              ELSE _az_cbor_reader_process_value(m, ElementConsumed(r1), first_byte)
         [] r1.kind = "AZ_CBOR_TOKEN_PROPERTY_NAME" ->
              _az_cbor_reader_process_value(m, r1, first_byte)
         [] r1.kind \in {"AZ_CBOR_TOKEN_END_OBJECT", "AZ_CBOR_TOKEN_END_ARRAY",
                         "AZ_CBOR_TOKEN_STRING", "AZ_CBOR_TOKEN_NUMBER",
                         "AZ_CBOR_TOKEN_TRUE", "AZ_CBOR_TOKEN_FALSE",
                         "AZ_CBOR_TOKEN_NULL"} ->
              _az_cbor_reader_process_next_byte(m, r1, first_byte)
         [] OTHER -> Ret(r1, "AZ_ERROR_CBOR_INVALID_STATE")

(* The process ended in this call: it read through a NULL based pointer and
   the read faulted. *)
CrashChoice == 0 - 1
Crashed(r) == r.nullread /\ r.nullv = CrashChoice

IsReaderDone(res) == res \in {"AZ_ERROR_JSON_READER_DONE", "AZ_ERROR_CBOR_READER_DONE"}

---------------------------------------------------------------------------
(* The history of a reader, kept beside the fields of the C structure. *)
BeginKinds == {"AZ_CBOR_TOKEN_BEGIN_OBJECT", "AZ_CBOR_TOKEN_BEGIN_ARRAY"}
EndKinds == {"AZ_CBOR_TOKEN_END_OBJECT", "AZ_CBOR_TOKEN_END_ARRAY"}

(* The count an immediate-form container header b states, -1 for the forms
   that state it in the bytes that follow. *)
ImmediateCount(b) == IF b % 32 < 24 THEN b % 32 ELSE -1

(* The header of the container whose Begin token r holds is the first byte of
   the token's slice. *)
OpenedFrame(m, r) ==
  [obj |-> r.kind = "AZ_CBOR_TOKEN_BEGIN_OBJECT",
   n |-> IF Mapped(m, r.slice.ptr) THEN ImmediateCount(m[r.slice.ptr]) ELSE -1,
   names |-> 0, values |-> 0, ok |-> TRUE]

ValueSeen(frames) ==
  IF frames = <<>> THEN frames ELSE [frames EXCEPT ![Len(frames)].values = @ + 1]

NameSeen(frames) ==
  IF frames = <<>> THEN frames ELSE [frames EXCEPT ![Len(frames)].names = @ + 1]

FailureSeen(frames) == [d \in 1..Len(frames) |-> [frames[d] EXCEPT !.ok = FALSE]]

(* The history after the advance that returned the token r holds. *)
TokenSeen(m, r) ==
  IF r.kind \in BeginKinds
  THEN [r EXCEPT !.tokens = Append(@, r.kind), !.frames = Append(@, OpenedFrame(m, r))]
  ELSE IF r.kind \in EndKinds
  THEN IF r.frames = <<>> THEN [r EXCEPT !.tokens = Append(@, r.kind)]
       ELSE [r EXCEPT !.tokens = Append(@, r.kind),
                      !.closed = r.frames[Len(r.frames)],
                      !.frames = ValueSeen(SubSeq(@, 1, Len(@) - 1))]
  ELSE IF r.kind = "AZ_CBOR_TOKEN_PROPERTY_NAME"
  THEN [r EXCEPT !.tokens = Append(@, r.kind), !.frames = NameSeen(@)]
  ELSE [r EXCEPT !.tokens = Append(@, r.kind), !.frames = ValueSeen(@)]

ReadSeen(r) == [r EXCEPT !.strayed = @ \/ r.oob \/ r.nullread]

Observe(m, out) ==
  IF Crashed(out.r) \/ out.r.unmapped THEN out
  ELSE IF IsReaderDone(out.res) THEN Ret(ReadSeen(out.r), out.res)
  ELSE IF Failed(out.res)
  THEN Ret([ReadSeen(out.r) EXCEPT !.frames = FailureSeen(@), !.failed = TRUE], out.res)
  ELSE Ret(TokenSeen(m, ReadSeen(out.r)), out.res)

(* A call of az_cbor_reader_next_token and its record in the history. *)
Advance(m, r) == Observe(m, az_cbor_reader_next_token(m, r))

(* do { next_token } while (depth <= current_depth): n is what the call of
   az_cbor_reader_next_token in the body of the loop returned. *)
RECURSIVE SkipLoop(_, _, _)
SkipLoopMutant(m, n, depth) ==
  IF Failed(n.res) \/ n.r.unmapped \/ Crashed(n.r) THEN n
  ELSE IF depth < n.r.current_depth
  THEN SkipLoop(m, Advance(m, n.r), depth)
  ELSE Ret(n.r, "AZ_OK")
SkipLoop(m, n, depth) ==
  IF Failed(n.res) \/ n.r.unmapped \/ Crashed(n.r) THEN n
  ELSE IF depth <= n.r.current_depth
  THEN SkipLoop(m, Advance(m, n.r), depth)
  ELSE Ret(n.r, "AZ_OK")

(* az_cbor_reader_skip_children after its first statement, which returned n. *)
SkipChildrenValueMutant(m, n) ==
  IF Failed(n.res) \/ n.r.unmapped \/ Crashed(n.r) THEN n
  ELSE IF n.r.kind \in BeginKinds
  THEN SkipLoop(m, Advance(m, n.r), n.r.current_depth - 1)
  ELSE Ret(n.r, "AZ_OK")
az_cbor_reader_skip_children_value(m, n) ==
  IF Failed(n.res) \/ n.r.unmapped \/ Crashed(n.r) THEN n
  ELSE IF n.r.kind \in BeginKinds
  THEN SkipLoop(m, Advance(m, n.r), n.r.current_depth)
  ELSE Ret(n.r, "AZ_OK")

SkipChildrenMutant(m, r) == az_cbor_reader_skip_children_value(m, Advance(m, r))
az_cbor_reader_skip_children(m, r) ==
  az_cbor_reader_skip_children_value(m,
     IF r.kind = "AZ_CBOR_TOKEN_PROPERTY_NAME"
     THEN Advance(m, r)
     ELSE Ret(r, "AZ_OK"))

---------------------------------------------------------------------------
(* The inputs. *)
CoreBytes == {1, 48, 96, 97, 129, 161, 245}

SeqsUpTo(S, n) == UNION {[1..k -> S] : k \in 1..n}

(* k one-element arrays, one inside the other, around the integer 0. *)
NestedArrays(k) == [i \in 1..(k + 1) |-> IF i <= k THEN 129 ELSE 0]

Documents ==
  { <<160>>, <<128>>, <<160, 1>>,
    <<131, 1, 2, 3>>,
    <<161, 97, 107, 245>>,
    <<98, 97>>,
    <<162, 96, 96, 96, 96>>,
    <<162, 96, 128, 97, 97, 160>>,
    <<130, 129, 96, 96>>,
    <<130, 128, 160, 1>>,
    <<131, 96, 96, 96>>,
    <<129, 161, 96, 129, 96>>,
    <<161, 96, 130, 96, 96, 7>>,
    <<130, 98, 97, 97, 96>>,
    <<129, 48, 44>>,
    <<45, 49, 46, 53, 101, 43, 50>> }

(* Memory that follows a document and is not part of the buffer. *)
Pad == <<0, 0>>
Pads == {<<>>, Pad}

(* What lies between two segments that are not adjacent in memory. *)
Gap == <<245>>

(* An input: the memory, the buffers given to the init function (one to
   az_cbor_reader_init, an array to az_cbor_reader_chunked_init) and the
   buffer that holds the same bytes contiguously. *)
Input(m, chunked, buffers, flat) ==
  [mem |-> m, chunked |-> chunked, buffers |-> buffers, flat |-> flat]

SingleInputs ==
  {Input(m, FALSE, <<Span(1, n)>>, Span(1, n)) :
      m \in SeqsUpTo(CoreBytes, MaxLen), n \in 1..MaxLen} \cup
  {Input(d \o p, FALSE, <<Span(1, Len(d))>>, Span(1, Len(d))) :
      d \in Documents, p \in Pads} \cup
  {Input(NestedArrays(k), FALSE, <<Span(1, k + 1)>>, Span(1, k + 1)) :
      k \in (MaxNest - 2)..MaxNest}

ChunkedDocuments == Documents \cup SeqsUpTo(CoreBytes, MaxLen - 1)

(* Two segments that lie one after the other in memory (the second one may
   be empty), two segments apart from each other and from the contiguous
   copy, and three segments one after the other. *)
AdjacentInputs ==
  UNION {{Input(d \o Pad, TRUE, <<Span(1, a), Span(a + 1, Len(d) - a)>>, Span(1, Len(d))) :
             a \in 1..Len(d)} :
         d \in ChunkedDocuments} \cup
  {Input(NestedArrays(MaxNest) \o Pad, TRUE,
         <<Span(1, MaxNest - 2), Span(MaxNest - 1, 3)>>, Span(1, MaxNest + 1))}

ApartInputs ==
  UNION {{Input(d \o Pad \o SubSeq(d, 1, a) \o Gap \o SubSeq(d, a + 1, Len(d)) \o Pad,
                TRUE,
                <<Span(Len(d) + 3, a), Span(Len(d) + a + 4, Len(d) - a)>>,
                Span(1, Len(d))) :
             a \in 1..(Len(d) - 1)} :
         d \in ChunkedDocuments}

ThreeInputs ==
  UNION {{Input(d \o Pad, TRUE,
                <<Span(1, ab[1]), Span(ab[1] + 1, ab[2]),
                  Span(ab[1] + ab[2] + 1, Len(d) - ab[1] - ab[2])>>,
                Span(1, Len(d))) :
             ab \in {x \in (1..Len(d)) \X (1..Len(d)) : x[1] + x[2] < Len(d)}} :
         d \in Documents}

(* Documents whose heads state a length or a count in the bytes that follow
   them (0x78, 0x79, 0x98, 0x99, 0xB8), or carry an additional information
   above 26 (0x7B, 0x7F, 0x9B, 0x9F, 0xBC, 0xBF). *)
LengthDocuments ==
  { <<129, 120, 1, 97>>, <<130, 120, 1, 97, 96>>,
    <<130, 121, 0, 1, 97, 96>>, <<153, 0, 1, 96>>,
    <<152, 1, 96>>, <<152, 1, 96, 96>>, <<184, 1, 96, 96>>,
    <<131, 96, 152, 1, 96>>, <<161, 96, 152, 1, 96>>, <<131, 96, 184, 1, 96, 96>>,
    <<155, 0, 96>>, <<130, 123, 0, 96>>, <<131, 96, 159, 0>>, <<191, 96, 96>> }

(* Documents with a tag head (0xC0, 0xDF), a major type 7 head other than
   false, true and null (0xE0, 0xF7, 0xFF) or a byte string head (0x40,
   0x41) where a value is read, and maps whose key is not a text string. *)
HeadDocuments ==
  { <<192, 96>>, <<129, 192, 96>>, <<130, 96, 223>>, <<161, 96, 247>>,
    <<224>>, <<129, 255>>,
    <<64>>, <<129, 65, 97>>, <<161, 96, 64>>,
    <<161, 65, 97, 96>>, <<161, 24, 0, 96>>, <<162, 96, 96, 129, 96>> }

(* Documents that end in a textual number: at the root, inside a root
   array or map, and inside a root array with the head 0x9F. *)
NumberDocuments ==
  { <<49, 50>>, <<129, 49, 50>>, <<129, 45, 49, 46, 53>>,
    <<161, 96, 49, 101, 50>>, <<159, 48>>, <<130, 48, 44, 48>> }

(* One buffer, with and without memory after it. *)
LengthInputs ==
  {Input(d \o p, FALSE, <<Span(1, Len(d))>>, Span(1, Len(d))) :
      d \in LengthDocuments \cup HeadDocuments \cup NumberDocuments, p \in Pads}

Inputs ==
  SingleInputs \cup AdjacentInputs \cup ApartInputs \cup ThreeInputs \cup LengthInputs

(* The buffers are inside the memory and the first one is not empty. *)
ValidInput(in) ==
  /\ \A i \in 1..Len(in.buffers) :
       in.buffers[i].size >= 0 /\ in.buffers[i].ptr + in.buffers[i].size - 1 <= Len(in.mem)
  /\ in.buffers[1].size >= 1

(* What a read through a NULL based pointer yields. *)
NullReadOutcomes == {CrashChoice, 0, 2}

Init ==
  /\ \E in \in Inputs :
       /\ ValidInput(in)
       /\ mem = in.mem
       /\ cbor_reader = IF in.chunked
                        THEN az_cbor_reader_chunked_init(in.buffers, Len(in.buffers))
                        ELSE az_cbor_reader_init(in.buffers[1])
       /\ flat_reader = az_cbor_reader_init(in.flat)
  /\ result = "AZ_OK"
  /\ flat_result = "AZ_OK"
  /\ last_op = "init"
  /\ prev_reader = cbor_reader

BeginCall(r, nv) == [r EXCEPT !.nullv = nv, !.oob = FALSE, !.nullread = FALSE]

(* The call returned out to the caller of cbor_reader; the same call on
   flat_reader returned flat, unless that reader's process has ended. *)
Commit(out, flat, op) ==
  /\ ~out.r.unmapped
  /\ IF Crashed(out.r)
     THEN /\ result' = "CRASH"
          /\ cbor_reader' = cbor_reader
     ELSE /\ result' = out.res
          /\ cbor_reader' = [out.r EXCEPT !.nullv = 0]
  /\ IF flat_result \in {"CRASH", "UNMAPPED"} THEN UNCHANGED <<flat_reader, flat_result>>
     ELSE IF flat.r.unmapped THEN flat_result' = "UNMAPPED" /\ UNCHANGED flat_reader
     ELSE IF Crashed(flat.r) THEN flat_result' = "CRASH" /\ UNCHANGED flat_reader
     ELSE flat_result' = flat.res /\ flat_reader' = [flat.r EXCEPT !.nullv = 0]
  /\ last_op' = op
  /\ prev_reader' = cbor_reader
  /\ UNCHANGED mem

NextToken ==
  /\ result # "CRASH"
  /\ \E nv \in NullReadOutcomes :
       Commit(Advance(mem, BeginCall(cbor_reader, nv)),
              Advance(mem, BeginCall(flat_reader, nv)), "next_token")

SkipChildren ==
  /\ result # "CRASH"
  /\ \E nv \in NullReadOutcomes :
       Commit(az_cbor_reader_skip_children(mem, BeginCall(cbor_reader, nv)),
              az_cbor_reader_skip_children(mem, BeginCall(flat_reader, nv)),
              "skip_children")

Next == NextToken \/ SkipChildren

Spec == Init /\ [][Next]_vars

(* The caller only advances token by token. *)
NextTokens == NextToken

SpecTokens == Init /\ [][NextTokens]_vars

---------------------------------------------------------------------------
(* What the properties below speak of. *)
Chunked == cbor_reader.cbor_buffers # <<AZ_SPAN_EMPTY>>

(* The bytes of the input, read from the contiguous buffer. *)
InputBytes ==
  [i \in 1..flat_reader.cbor_buffer.size |-> mem[flat_reader.cbor_buffer.ptr + i - 1]]

NonEmptySegments ==
  \A i \in 1..cbor_reader.number_of_buffers : cbor_reader.cbor_buffers[i].size >= 1

IsPrefix(s, t) == Len(s) <= Len(t) /\ SubSeq(t, 1, Len(s)) = s

(* Every advance so far returned Ok with the next token of expected, or
   ReaderDone once all of expected was returned. *)
Yields(expected) ==
  /\ IsPrefix(cbor_reader.tokens, expected)
  /\ \/ result = "AZ_OK"
     \/ cbor_reader.tokens = expected /\ IsReaderDone(result)

(* The next advance of r reads a value: the root value, the value of a
   property, or an element of an array that still has elements to come. *)
ValuePosition(r) ==
  \/ r.kind = "AZ_CBOR_TOKEN_NONE"
  \/ r.kind = "AZ_CBOR_TOKEN_PROPERTY_NAME"
  \/ /\ r.kind \notin {"AZ_CBOR_TOKEN_NONE", "AZ_CBOR_TOKEN_PROPERTY_NAME",
                       "AZ_CBOR_TOKEN_BEGIN_OBJECT"}
     /\ r.current_depth > 0
     /\ r.frames # <<>>
     /\ ~r.frames[Len(r.frames)].obj
     /\ ElementAt(r.element_len, r.current_depth) # 0

(* The address of the byte the next advance of r starts at. *)
NextAddress(r) == r.cbor_buffer.ptr + r.bytes_consumed

(* The bytes that follow the head byte b of an integer. *)
ExtraBytes(b) ==
  IF b % 32 < 24 THEN 0
  ELSE IF b % 32 = 24 THEN 1
  ELSE IF b % 32 = 25 THEN 2
  ELSE IF b % 32 = 26 THEN 4
  ELSE 8

(* Major type 0 or 1 with an additional information of at most 27. *)
IsIntegerHead(b) == b < 64 /\ b % 32 <= 27

(* The head byte b, and what follows it, lie inside the current buffer of r. *)
HeadInBuffer(r, extra) ==
  /\ r.cbor_buffer.size >= 1
  /\ r.bytes_consumed + 1 + extra <= r.cbor_buffer.size

(* Well-formedness of a definite-length CBOR data item (RFC 8949). *)
RECURSIVE BigEndian(_, _, _, _)
BigEndian(bytes, pos, n, cap) ==
  IF n = 0 THEN 0
  ELSE Min(cap, BigEndian(bytes, pos, n - 1, cap) * 256 + bytes[pos + n - 1])

(* The items that follow directly the head byte b with argument arg: the
   elements of an array, the keys and values of a map, the content of a tag. *)
Children(b, arg) ==
  IF b \div 32 = 4 THEN arg
  ELSE IF b \div 32 = 5 THEN 2 * arg
  ELSE IF b \div 32 = 6 THEN 1
  ELSE 0

(* The bytes of payload that follow the head of a byte or text string. *)
Payload(b, arg) == IF b \div 32 \in {2, 3} THEN arg ELSE 0

(* The argument of the head at pos, at most Len(bytes) + 1. *)
Argument(bytes, pos) ==
  IF bytes[pos] % 32 < 24 THEN bytes[pos] % 32
  ELSE BigEndian(bytes, pos + 1, ExtraBytes(bytes[pos]), Len(bytes) + 1)

(* The position after pending items that start at pos, 0 when they are not
   all there. *)
RECURSIVE WfEnd(_, _, _)
WfEnd(bytes, pos, pending) ==
  IF pending = 0 THEN pos
  ELSE IF pos > Len(bytes) \/ pending > Len(bytes) THEN 0
  ELSE IF bytes[pos] % 32 > 27 \/ pos + ExtraBytes(bytes[pos]) > Len(bytes) THEN 0
  ELSE WfEnd(bytes,
             pos + 1 + ExtraBytes(bytes[pos]) + Payload(bytes[pos], Argument(bytes, pos)),
             pending - 1 + Children(bytes[pos], Argument(bytes, pos)))

WellFormed(bytes) == WfEnd(bytes, 1, 1) = Len(bytes) + 1

(* No unread byte remains: none in the current buffer, none in a buffer
   after it. *)
FullyConsumed(r) ==
  /\ r.bytes_consumed >= az_span_size(r.cbor_buffer)
  /\ \A i \in 1..r.number_of_buffers :
       (r.number_of_buffers > 1 /\ i > r.buffer_index + 1) => r.cbor_buffers[i].size = 0

---------------------------------------------------------------------------
(* C1: whenever az_cbor_reader_next_token returns ReaderDone, every byte of
   every input segment has been consumed: no unread byte remains after the
   root value.  (Stated for the runs in which no advance failed and no read
   left its buffer.) *)
C1_ReaderDoneOnlyWhenFullyConsumed ==
  (/\ last_op = "next_token"
   /\ IsReaderDone(result)
   /\ ~cbor_reader.failed
   /\ ~cbor_reader.strayed)
    => FullyConsumed(cbor_reader)

(* C2: once a token has been produced, az_cbor_reader_next_token returns
   ReaderDone exactly when it is called at depth 0 (after a root scalar, or
   after the End token that brought the depth back to 0), and never while
   the depth is above 0 or the token kind is still None. *)
C2_ReaderDoneExactlyAtDepthZero ==
  last_op = "next_token" =>
    /\ (prev_reader.kind # "AZ_CBOR_TOKEN_NONE" /\ prev_reader.current_depth = 0)
          => IsReaderDone(result)
    /\ IsReaderDone(result)
          => /\ prev_reader.kind # "AZ_CBOR_TOKEN_NONE"
             /\ prev_reader.current_depth = 0
             /\ prev_reader.kind \in EndKinds \cup
                   {"AZ_CBOR_TOKEN_STRING", "AZ_CBOR_TOKEN_NUMBER", "AZ_CBOR_TOKEN_TRUE",
                    "AZ_CBOR_TOKEN_FALSE", "AZ_CBOR_TOKEN_NULL"}

(* ReaderDone was returned by the advance that followed the End token of
   the root array. *)
C2_Witness ==
  /\ last_op = "next_token"
  /\ IsReaderDone(result)
  /\ prev_reader.kind = "AZ_CBOR_TOKEN_END_ARRAY"
  /\ prev_reader.current_depth = 0
  /\ Len(prev_reader.tokens) >= 3

(* The i-th advance over an input that starts with i bytes 0x81, all the
   advances before it having returned BeginArray. *)
NestedOpen(i) ==
  /\ last_op = "next_token"
  /\ ~Chunked
  /\ ~prev_reader.failed
  /\ Len(prev_reader.tokens) = i - 1
  /\ \A j \in 1..(i - 1) : prev_reader.tokens[j] = "AZ_CBOR_TOKEN_BEGIN_ARRAY"
  /\ i <= prev_reader.cbor_buffer.size
  /\ \A j \in 1..i : mem[j] = 129

(* C3: for an input of nested one-element arrays (0x81 repeated) the i-th
   advance, i <= 64, returns Ok with BeginArray and leaves the depth at i,
   and the advance that would open a 65th container returns
   NestingOverflow. *)
C3_NestingLimit ==
  \A i \in 1..(_az_MAX_cbor_STACK_SIZE + 1) :
    NestedOpen(i) =>
      IF i <= _az_MAX_cbor_STACK_SIZE
      THEN /\ result = "AZ_OK"
           /\ cbor_reader.kind = "AZ_CBOR_TOKEN_BEGIN_ARRAY"
           /\ cbor_reader.current_depth = i
      ELSE /\ result = "AZ_ERROR_CBOR_NESTING_OVERFLOW"
           /\ cbor_reader.current_depth = _az_MAX_cbor_STACK_SIZE

(* The 65th open was refused after 64 accepted ones. *)
C3_Witness ==
  /\ NestedOpen(_az_MAX_cbor_STACK_SIZE + 1)
  /\ result = "AZ_ERROR_CBOR_NESTING_OVERFLOW"
  /\ prev_reader.current_depth = _az_MAX_cbor_STACK_SIZE

(* C4: in every state reachable from either init function by next_token
   and skip_children calls the depth of the bit stack lies in [0, 64]; the
   push is never executed at depth 64 and the pop never at depth 0. *)
C4_DepthInRange ==
  /\ cbor_reader.current_depth \in 0.._az_MAX_cbor_STACK_SIZE
  /\ ~cbor_reader.pushed_full
  /\ ~cbor_reader.popped_empty
  /\ Len(cbor_reader.frames) = cbor_reader.current_depth

(* A chunked reader is at depth 64 and skip_children has just been refused
   a 65th container. *)
C4_Witness ==
  /\ Chunked
  /\ last_op = "skip_children"
  /\ cbor_reader.current_depth = _az_MAX_cbor_STACK_SIZE
  /\ result = "AZ_ERROR_CBOR_NESTING_OVERFLOW"

(* C5: when the byte at a value position is a CBOR integer head (major type
   0 or 1, with the bytes its additional information asks for), next_token
   returns Ok with kind Number and consumes exactly the head and its extra
   bytes; the input 0x83 0x01 0x02 0x03 yields BeginArray, Number, Number,
   Number, EndArray, ReaderDone. *)
C5_IntegerHeadYieldsNumber ==
  /\ (/\ last_op = "next_token"
      /\ ~prev_reader.failed
      /\ ValuePosition(prev_reader)
      /\ HeadInBuffer(prev_reader, 0)
      /\ IsIntegerHead(mem[NextAddress(prev_reader)])
      /\ HeadInBuffer(prev_reader, ExtraBytes(mem[NextAddress(prev_reader)])))
       => /\ result = "AZ_OK"
          /\ cbor_reader.kind = "AZ_CBOR_TOKEN_NUMBER"
          /\ cbor_reader.total_bytes_consumed
               = prev_reader.total_bytes_consumed + 1
                   + ExtraBytes(mem[NextAddress(prev_reader)])
  /\ (~Chunked /\ InputBytes = <<131, 1, 2, 3>>)
       => Yields(<<"AZ_CBOR_TOKEN_BEGIN_ARRAY", "AZ_CBOR_TOKEN_NUMBER",
                   "AZ_CBOR_TOKEN_NUMBER", "AZ_CBOR_TOKEN_NUMBER",
                   "AZ_CBOR_TOKEN_END_ARRAY">>)

(* C6: when the byte at a value position is 0xF4, 0xF5 or 0xF6, next_token
   returns Ok with kind False, True or Null and consumes that one byte; the
   input 0xA1 0x61 'k' 0xF5 yields BeginObject, PropertyName, True,
   EndObject, ReaderDone. *)
C6_SimpleValueYieldsLiteral ==
  /\ (/\ last_op = "next_token"
      /\ ~prev_reader.failed
      /\ ValuePosition(prev_reader)
      /\ HeadInBuffer(prev_reader, 0)
      /\ mem[NextAddress(prev_reader)] \in {244, 245, 246})
       => /\ result = "AZ_OK"
          /\ cbor_reader.kind =
               (CASE mem[NextAddress(prev_reader)] = 244 -> "AZ_CBOR_TOKEN_FALSE"
                  [] mem[NextAddress(prev_reader)] = 245 -> "AZ_CBOR_TOKEN_TRUE"
                  [] OTHER -> "AZ_CBOR_TOKEN_NULL")
          /\ cbor_reader.total_bytes_consumed = prev_reader.total_bytes_consumed + 1
  /\ (~Chunked /\ InputBytes = <<161, 97, 107, 245>>)
       => Yields(<<"AZ_CBOR_TOKEN_BEGIN_OBJECT", "AZ_CBOR_TOKEN_PROPERTY_NAME",
                   "AZ_CBOR_TOKEN_TRUE", "AZ_CBOR_TOKEN_END_OBJECT">>)

(* The frame at depth d is a container of kind obj that was opened with an
   immediate-form count and inside which no advance failed. *)
Counted(f, obj) == f.obj = obj /\ f.n >= 0 /\ f.ok

(* C7: a map opened with an immediate-form pair count n, whose entries all
   tokenize Ok, emits at its depth exactly n PropertyName tokens, each
   followed by exactly one value (a scalar or one complete nested
   container), then EndObject; the remaining-element counter of its depth
   goes down once per PropertyName and never per value. *)
C7_MapEmitsPairs ==
  /\ \A d \in 1..Len(cbor_reader.frames) :
       LET f == cbor_reader.frames[d] IN
       Counted(f, TRUE) =>
         /\ f.names <= f.n
         /\ ElementAt(cbor_reader.element_len, d) = f.n - f.names
         /\ f.values <= f.names
         /\ f.names <= f.values + 1
         /\ d < Len(cbor_reader.frames) => f.names = f.values + 1
         /\ d = Len(cbor_reader.frames) =>
              (f.names = f.values + 1 <=> cbor_reader.kind = "AZ_CBOR_TOKEN_PROPERTY_NAME")
  /\ (/\ result = "AZ_OK"
      /\ cbor_reader.kind = "AZ_CBOR_TOKEN_END_OBJECT"
      /\ Counted(cbor_reader.closed, TRUE))
       => /\ cbor_reader.closed.names = cbor_reader.closed.n
          /\ cbor_reader.closed.values = cbor_reader.closed.n

(* A map of two pairs, one of whose values is a nested container, has just
   been closed. *)
C7_Witness ==
  /\ result = "AZ_OK"
  /\ last_op = "next_token"
  /\ cbor_reader.kind = "AZ_CBOR_TOKEN_END_OBJECT"
  /\ Counted(cbor_reader.closed, TRUE)
  /\ cbor_reader.closed.n = 2
  /\ cbor_reader.closed.names = 2
  /\ \E j \in 1..Len(cbor_reader.tokens) :
       cbor_reader.tokens[j] = "AZ_CBOR_TOKEN_END_ARRAY"

(* C8: an array opened with an immediate-form count n, whose elements all
   tokenize Ok, emits at its depth exactly n values (each a scalar or one
   complete nested container), then EndArray; closing a nested container
   resumes the parent's remaining-element count, which nothing inside the
   child has changed. *)
C8_ArrayEmitsValues ==
  /\ \A d \in 1..Len(cbor_reader.frames) :
       LET f == cbor_reader.frames[d] IN
       Counted(f, FALSE) =>
         /\ f.names = 0
         /\ f.values <= f.n
         /\ ElementAt(cbor_reader.element_len, d)
              = f.n - f.values - (IF d < Len(cbor_reader.frames) THEN 1 ELSE 0)
  /\ (/\ result = "AZ_OK"
      /\ cbor_reader.kind = "AZ_CBOR_TOKEN_END_ARRAY"
      /\ Counted(cbor_reader.closed, FALSE))
       => cbor_reader.closed.values = cbor_reader.closed.n

(* The root array of two elements has just been closed, after a nested
   container inside it was closed. *)
C8_Witness ==
  /\ result = "AZ_OK"
  /\ last_op = "next_token"
  /\ cbor_reader.kind = "AZ_CBOR_TOKEN_END_ARRAY"
  /\ cbor_reader.current_depth = 0
  /\ Counted(cbor_reader.closed, FALSE)
  /\ cbor_reader.closed.n = 2
  /\ cbor_reader.closed.values = 2
  /\ Cardinality({j \in 1..Len(cbor_reader.tokens) :
                     cbor_reader.tokens[j] \in EndKinds}) >= 2

(* C9: a container with element count 0 produces its Begin token and then
   at once its matching End token, which brings the depth back; for the
   input 0xA0 the advances return BeginObject, EndObject, ReaderDone and
   the depth goes 0, 1, 0. *)
C9_EmptyContainer ==
  /\ (/\ last_op = "next_token"
      /\ prev_reader.kind \in BeginKinds
      /\ prev_reader.frames # <<>>
      /\ prev_reader.frames[Len(prev_reader.frames)].n = 0
      /\ prev_reader.frames[Len(prev_reader.frames)].ok)
       => /\ result = "AZ_OK"
          /\ cbor_reader.kind = (IF prev_reader.kind = "AZ_CBOR_TOKEN_BEGIN_OBJECT"
                                 THEN "AZ_CBOR_TOKEN_END_OBJECT"
                                 ELSE "AZ_CBOR_TOKEN_END_ARRAY")
          /\ cbor_reader.current_depth = prev_reader.current_depth - 1
  /\ InputBytes = <<160>>
       => /\ Yields(<<"AZ_CBOR_TOKEN_BEGIN_OBJECT", "AZ_CBOR_TOKEN_END_OBJECT">>)
          /\ cbor_reader.current_depth = (IF Len(cbor_reader.tokens) = 1 THEN 1 ELSE 0)

(* The input 0xA0 has been read to ReaderDone. *)
C9_Witness ==
  /\ InputBytes = <<160>>
  /\ ~Chunked
  /\ IsReaderDone(result)
  /\ cbor_reader.tokens = <<"AZ_CBOR_TOKEN_BEGIN_OBJECT", "AZ_CBOR_TOKEN_END_OBJECT">>
  /\ cbor_reader.current_depth = 0

SameResult(a, b) == a = b \/ (IsReaderDone(a) /\ IsReaderDone(b))

(* C10: for a well-formed input split into non-empty segments, the chunked
   reader returns the same sequence of results and tokens (kind and size)
   as the reader over the same bytes held contiguously.  (Stated for the
   runs in which no read of either reader left its buffer.) *)
C10_ChunkedMatchesContiguous ==
  (/\ Chunked
   /\ NonEmptySegments
   /\ WellFormed(InputBytes)
   /\ ~cbor_reader.strayed
   /\ ~flat_reader.strayed
   /\ flat_result \notin {"CRASH", "UNMAPPED"}
   /\ result # "CRASH")
    => /\ SameResult(result, flat_result)
       /\ cbor_reader.tokens = flat_reader.tokens
       /\ result = "AZ_OK" => cbor_reader.size = flat_reader.size

(* The next advance of r reads a property name: r is inside a map that has
   pairs to come and the last token was not a property name. *)
KeyPosition(r) ==
  /\ r.kind \notin {"AZ_CBOR_TOKEN_NONE", "AZ_CBOR_TOKEN_PROPERTY_NAME"}
  /\ r.current_depth > 0
  /\ r.frames # <<>>
  /\ r.frames[Len(r.frames)].obj
  /\ ElementAt(r.element_len, r.current_depth) # 0

(* The byte the next advance of the reader starts at. *)
HeadByte == mem[NextAddress(prev_reader)]

(* The last call was an advance from a value or key position at which the
   head b of a text string of additional information ai, with extra header
   bytes and then len bytes of payload, lies inside the current buffer. *)
TextStringRead(ai, extra, len) ==
  /\ last_op = "next_token"
  /\ ~prev_reader.failed
  /\ ValuePosition(prev_reader) \/ KeyPosition(prev_reader)
  /\ HeadInBuffer(prev_reader, 0)
  /\ HeadByte = 96 + ai
  /\ HeadInBuffer(prev_reader, extra + len)

(* The token the advance must have returned for a string whose payload of
   len bytes starts extra + 1 bytes after the head. *)
TextStringToken(extra, len) ==
  /\ result = "AZ_OK"
  /\ cbor_reader.kind = (IF KeyPosition(prev_reader) THEN "AZ_CBOR_TOKEN_PROPERTY_NAME"
                         ELSE "AZ_CBOR_TOKEN_STRING")
  /\ cbor_reader.size = len
  /\ cbor_reader.slice = Span(NextAddress(prev_reader) + 1 + extra, len)
  /\ cbor_reader.buffer_index = prev_reader.buffer_index
  /\ cbor_reader.bytes_consumed = prev_reader.bytes_consumed + 1 + extra + len

(* C11: a text string with ai in 0..23 whose head and payload lie inside the
   current segment is returned by next_token as Ok, String (PropertyName at
   a key position), of size ai, with the ai payload bytes as slice, and
   bytes_consumed moves by 1 + ai. *)
C11_ShortStringInSegment ==
  \A ai \in 0..23 : TextStringRead(ai, 0, ai) => TextStringToken(0, ai)

(* The length byte that follows the head the advance started at. *)
LengthByte == mem[NextAddress(prev_reader) + 1]

(* C12: a text string with ai = 24 (0x78, then a length byte L) whose
   2 + L bytes lie inside the current segment, also when they end where the
   segment and the input end, is returned by next_token as Ok, String, of
   size L, with the L payload bytes as slice, and 2 + L bytes are consumed.
   (Stated for the advances that did not end the process.) *)
C12_OneByteLengthString ==
  (/\ result # "CRASH"
   /\ HeadInBuffer(prev_reader, 1)
   /\ TextStringRead(24, 1, LengthByte))
    => TextStringToken(1, LengthByte)

(* The length or count that the extra bytes after the head state, read big
   endian. *)
WideLength(extra) == BigEndian(mem, NextAddress(prev_reader) + 1, extra, 1000000)

(* The last call was an advance from a value position at which an array or
   map head of additional information ai, with its extra header bytes, lies
   inside the current buffer. *)
ContainerRead(ai, extra) ==
  /\ last_op = "next_token"
  /\ ~prev_reader.failed
  /\ ValuePosition(prev_reader)
  /\ HeadInBuffer(prev_reader, extra)
  /\ HeadByte \in {128 + ai, 160 + ai}

(* The Begin token of a container whose head has extra bytes after it and
   states count elements. *)
ContainerToken(extra, count) ==
  /\ result = "AZ_OK"
  /\ cbor_reader.kind = (IF HeadByte >= 160 THEN "AZ_CBOR_TOKEN_BEGIN_OBJECT"
                         ELSE "AZ_CBOR_TOKEN_BEGIN_ARRAY")
  /\ cbor_reader.current_depth = prev_reader.current_depth + 1
  /\ ElementAt(cbor_reader.element_len, cbor_reader.current_depth) = count
  /\ cbor_reader.buffer_index = prev_reader.buffer_index
  /\ cbor_reader.bytes_consumed = prev_reader.bytes_consumed + 1 + extra

(* C13: for ai = 25 the length of a string, or the count of a container, is
   the next 2 bytes read big endian and 2 extra header bytes are consumed;
   for ai = 26 it is the next 4 bytes and 4 extra header bytes are consumed.
   (Stated for the advances that did not end the process.) *)
C13_WideLengthForms ==
  \A ai \in {25, 26} :
    LET extra == IF ai = 25 THEN 2 ELSE 4 IN
    /\ (/\ result # "CRASH"
        /\ HeadInBuffer(prev_reader, extra)
        /\ TextStringRead(ai, extra, WideLength(extra)))
         => TextStringToken(extra, WideLength(extra))
    /\ (result # "CRASH" /\ ContainerRead(ai, extra))
         => ContainerToken(extra, WideLength(extra))

(* The heads of a string, an array or a map whose additional information is
   27 (8-byte length), 28..30 (reserved) or 31 (indefinite). *)
UnsupportedHeads == {mt + ai : mt \in {96, 128, 160}, ai \in 27..31}

(* C14: a string, array or map head whose additional information is 27,
   28..30 or 31 makes next_token fail with UnexpectedChar and produces no
   token.  (Stated for the advances whose reads stay inside the buffer.) *)
C14_UnsupportedLengthFails ==
  (/\ last_op = "next_token"
   /\ result # "CRASH"
   /\ ~prev_reader.failed
   /\ ~cbor_reader.strayed
   /\ ValuePosition(prev_reader)
   /\ HeadInBuffer(prev_reader, 0)
   /\ HeadByte \in UnsupportedHeads)
    => /\ result = "AZ_ERROR_UNEXPECTED_CHAR"
       /\ cbor_reader.tokens = prev_reader.tokens
       /\ cbor_reader.kind = prev_reader.kind

(* C15: an array or map head with ai = 24 (0x98 n, 0xB8 n), at the root or
   inside another container, consumes exactly its two header bytes and
   records n, the byte after the head, as the number of elements (pairs) to
   come at its depth.  (Stated for the advances whose reads stay inside the
   buffer.) *)
C15_OneByteCountContainer ==
  (/\ result # "CRASH"
   /\ ~cbor_reader.strayed
   /\ ContainerRead(24, 1))
    => ContainerToken(1, LengthByte)

(* The last call was an advance, made in the last segment, from a value or
   key position at which the head of a text string with ai <= 23 lies inside
   the buffer and fewer than ai bytes follow it. *)
TruncatedStringRead ==
  /\ last_op = "next_token"
  /\ ~prev_reader.failed
  /\ ValuePosition(prev_reader) \/ KeyPosition(prev_reader)
  /\ prev_reader.buffer_index = prev_reader.number_of_buffers - 1
  /\ HeadInBuffer(prev_reader, 0)
  /\ HeadByte \in 96..119
  /\ ~HeadInBuffer(prev_reader, HeadByte - 96)

(* C16: when the declared length of a text string exceeds the payload bytes
   left in the input and no further segment exists, next_token returns
   UnexpectedEnd and no String token; the input 0x62 'a' fails with
   UnexpectedEnd on the first advance. *)
C16_TruncatedStringFails ==
  /\ TruncatedStringRead
       => /\ result = "AZ_ERROR_UNEXPECTED_END"
          /\ cbor_reader.tokens = prev_reader.tokens
          /\ cbor_reader.kind = prev_reader.kind
  /\ (~Chunked /\ InputBytes = <<98, 97>> /\ last_op = "next_token")
       => result = "AZ_ERROR_UNEXPECTED_END"

(* The last call was an advance made inside a container that has elements
   to come, with every byte of the last segment consumed. *)
ExhaustedInsideContainer ==
  /\ last_op = "next_token"
  /\ ~prev_reader.failed
  /\ prev_reader.current_depth > 0
  /\ ElementAt(prev_reader.element_len, prev_reader.current_depth) # 0
  /\ prev_reader.buffer_index = prev_reader.number_of_buffers - 1
  /\ prev_reader.bytes_consumed >= az_span_size(prev_reader.cbor_buffer)

(* C17: when the input has run out of bytes and segments while an open
   array or map still has elements to come (0x81 alone, or 0x82 0x60), the
   next advance returns UnexpectedEnd, never Ok, UnexpectedChar or
   ReaderDone.  (Stated for the advances that did not end the process.) *)
C17_ExhaustedInputFails ==
  (result # "CRASH" /\ ExhaustedInsideContainer) => result = "AZ_ERROR_UNEXPECTED_END"

(* The End token that closes the container a Begin token opens. *)
MatchingEnd(kind) ==
  IF kind = "AZ_CBOR_TOKEN_BEGIN_OBJECT" THEN "AZ_CBOR_TOKEN_END_OBJECT"
  ELSE "AZ_CBOR_TOKEN_END_ARRAY"

ScalarKinds ==
  {"AZ_CBOR_TOKEN_STRING", "AZ_CBOR_TOKEN_NUMBER", "AZ_CBOR_TOKEN_TRUE",
   "AZ_CBOR_TOKEN_FALSE", "AZ_CBOR_TOKEN_NULL"}

(* The last call was az_cbor_reader_skip_children, it returned Ok, and the
   token it was called on had one of kinds. *)
SkippedFrom(kinds) ==
  /\ last_op = "skip_children"
  /\ result = "AZ_OK"
  /\ prev_reader.kind \in kinds

(* The first token the last call returned. *)
FirstSkipped == cbor_reader.tokens[Len(prev_reader.tokens) + 1]

(* The container whose Begin token begin was returned while the open
   containers were outer has been closed, and nothing else has changed
   among the open containers: the reader is on the End token that matches
   begin, at the depth of outer. *)
ClosedAfter(begin, outer) ==
  /\ cbor_reader.kind = MatchingEnd(begin)
  /\ cbor_reader.current_depth = Len(outer)
  /\ cbor_reader.frames = ValueSeen(outer)
  /\ cbor_reader.closed.obj = (begin = "AZ_CBOR_TOKEN_BEGIN_OBJECT")

(* C18: when az_cbor_reader_skip_children is called on a BeginObject or
   BeginArray token, or on a PropertyName whose value is a container, and
   returns Ok, the current token is the End token that matches that
   container and the depth is one less than right after its Begin token;
   when the value of the PropertyName is a scalar, the reader is on that
   scalar and the depth has not changed. *)
C18_SkipChildrenEndsOnMatchingEnd ==
  /\ SkippedFrom(BeginKinds)
       => /\ ClosedAfter(prev_reader.kind,
                         SubSeq(prev_reader.frames, 1, Len(prev_reader.frames) - 1))
          /\ cbor_reader.current_depth = prev_reader.current_depth - 1
  /\ SkippedFrom({"AZ_CBOR_TOKEN_PROPERTY_NAME"})
       => /\ Len(cbor_reader.tokens) > Len(prev_reader.tokens)
          /\ cbor_reader.current_depth = prev_reader.current_depth
          /\ IF FirstSkipped \in BeginKinds
             THEN ClosedAfter(FirstSkipped, prev_reader.frames)
             ELSE /\ FirstSkipped \in ScalarKinds
                  /\ cbor_reader.kind = FirstSkipped
                  /\ Len(cbor_reader.tokens) = Len(prev_reader.tokens) + 1

(* skip_children was called on a PropertyName whose value is an array with
   elements and left the reader on the EndArray of that array. *)
C18_Witness ==
  /\ SkippedFrom({"AZ_CBOR_TOKEN_PROPERTY_NAME"})
  /\ cbor_reader.kind = "AZ_CBOR_TOKEN_END_ARRAY"
  /\ Len(cbor_reader.tokens) >= Len(prev_reader.tokens) + 3
  /\ FirstSkipped = "AZ_CBOR_TOKEN_BEGIN_ARRAY"

(* The last call was az_cbor_reader_skip_children, it returned Ok and it
   went over a container: it was called on a Begin token, or on a
   PropertyName whose value is a container. *)
SkippedContainer ==
  \/ SkippedFrom(BeginKinds)
  \/ SkippedFrom({"AZ_CBOR_TOKEN_PROPERTY_NAME"}) /\ FirstSkipped \in BeginKinds

(* C19, as stated: when az_cbor_reader_skip_children goes over a container
   and returns Ok, the depth of the bit stack equals the depth the reader
   had when skip_children was entered. *)
C19_DepthAsAtEntry ==
  SkippedContainer => cbor_reader.current_depth = prev_reader.current_depth

(* C19, amended: when az_cbor_reader_skip_children goes over a container
   and returns Ok, the depth of the bit stack equals the depth the reader
   had before the Begin token of that container: the depth at entry when
   it was entered on a PropertyName, one less than the depth at entry when
   it was entered on a BeginObject or BeginArray token. *)
C19_DepthBeforeContainer ==
  SkippedContainer =>
    cbor_reader.current_depth =
      (IF prev_reader.kind \in BeginKinds
       THEN prev_reader.current_depth - 1
       ELSE prev_reader.current_depth)

(* skip_children was called on the Begin token of a container nested in
   another one, went over its children and returned one level up. *)
C19_Witness ==
  /\ SkippedFrom(BeginKinds)
  /\ prev_reader.current_depth = 2
  /\ cbor_reader.current_depth = 1
  /\ Len(cbor_reader.tokens) >= Len(prev_reader.tokens) + 2

(* The fields of the az_cbor_reader structure, and the tokens returned. *)
ReaderFields(r) ==
  <<r.kind, r.slice, r.size, r.is_multisegment, r.start_buffer_index,
    r.start_buffer_offset, r.end_buffer_index, r.end_buffer_offset, r.cbor_buffer,
    r.cbor_buffers, r.number_of_buffers, r.buffer_index, r.bytes_consumed,
    r.total_bytes_consumed, r.is_complex_cbor, r.element_type, r.element_len,
    r.az_cbor_stack, r.current_depth, r.tokens>>

(* C20: when az_cbor_reader_skip_children is called on a token whose kind
   is neither PropertyName, BeginObject nor BeginArray (None, EndObject,
   EndArray, String, Number, True, False, Null), it returns Ok and leaves
   the whole reader unchanged: token, depth, buffer_index, bytes_consumed
   and total_bytes_consumed. *)
C20_SkipChildrenElsewhereIsNoOp ==
  (/\ last_op = "skip_children"
   /\ prev_reader.kind \notin BeginKinds \cup {"AZ_CBOR_TOKEN_PROPERTY_NAME"})
    => /\ result = "AZ_OK"
       /\ ReaderFields(cbor_reader) = ReaderFields(prev_reader)

(* skip_children was called on a String token inside a container, after
   bytes had been consumed. *)
C20_Witness ==
  /\ last_op = "skip_children"
  /\ result = "AZ_OK"
  /\ prev_reader.kind = "AZ_CBOR_TOKEN_STRING"
  /\ prev_reader.current_depth > 0
  /\ cbor_reader.bytes_consumed >= 2

(* C21: for a reader created by az_cbor_reader_init over a single buffer,
   total_bytes_consumed equals bytes_consumed in every state reachable by
   next_token and skip_children calls. *)
C21_TotalEqualsConsumed ==
  ~Chunked => cbor_reader.total_bytes_consumed = cbor_reader.bytes_consumed

(* The total size of the first n segments of r. *)
RECURSIVE SegmentsSize(_, _)
SegmentsSize(r, n) ==
  IF n = 0 THEN 0 ELSE SegmentsSize(r, n - 1) + az_span_size(r.cbor_buffers[n])

(* C22: for a chunked reader, after any sequence of Ok advances,
   total_bytes_consumed equals the total length of the segments already
   left behind plus bytes_consumed in the current segment.  (Stated for
   non-empty segments and reads that stay inside the buffers.) *)
C22_TotalIsSegmentSum ==
  (/\ Chunked
   /\ NonEmptySegments
   /\ ~cbor_reader.failed
   /\ ~cbor_reader.strayed
   /\ result = "AZ_OK")
    => cbor_reader.total_bytes_consumed
         = SegmentsSize(cbor_reader, cbor_reader.buffer_index) + cbor_reader.bytes_consumed

(* The reader is in a state a caller observes between operations: after
   init, after an Ok advance, after ReaderDone; no advance has failed. *)
Observable ==
  /\ last_op = "init" \/ result = "AZ_OK" \/ IsReaderDone(result)
  /\ ~cbor_reader.failed

(* C23: in every reader state observable between operations (after init,
   after every Ok advance, after ReaderDone) the token has
   start_buffer_index = end_buffer_index only if is_multisegment is false,
   and is_multisegment only if start_buffer_index < end_buffer_index. *)
C23_MultisegmentMatchesIndices ==
  Observable =>
    /\ cbor_reader.start_buffer_index = cbor_reader.end_buffer_index
         => ~cbor_reader.is_multisegment
    /\ cbor_reader.is_multisegment
         => cbor_reader.start_buffer_index < cbor_reader.end_buffer_index

(* C24: after every Ok advance that produced a token within one segment
   (is_multisegment false), token.size equals the number of bytes of
   token.slice, for every token kind, BeginObject, BeginArray, EndObject
   and EndArray included. *)
C24_SizeIsSliceSize ==
  (/\ last_op = "next_token"
   /\ result = "AZ_OK"
   /\ ~cbor_reader.failed
   /\ ~cbor_reader.is_multisegment)
    => cbor_reader.size = az_span_size(cbor_reader.slice)

(* C25: for every BeginObject and BeginArray token, at the root or nested,
   whatever the length form of the head, token.slice is exactly the single
   head byte the advance started at. *)
C25_BeginSliceIsHeadByte ==
  (/\ last_op = "next_token"
   /\ result = "AZ_OK"
   /\ ~prev_reader.failed
   /\ cbor_reader.kind \in {"AZ_CBOR_TOKEN_BEGIN_OBJECT", "AZ_CBOR_TOKEN_BEGIN_ARRAY"})
    => cbor_reader.slice = Span(NextAddress(prev_reader), 1)

(* A head byte of major type 6 (a tag), or of major type 7 other than
   false, true and null. *)
UnrecognisedHeads == (192..255) \ {244, 245, 246}

(* C26: when the byte at a value position is a tag head (0xC0..0xDF) or a
   major type 7 byte other than 0xF4, 0xF5 and 0xF6, next_token returns
   UnexpectedChar, consumes no input and leaves the depth and the stack
   as they were. *)
C26_UnrecognisedHeadRejected ==
  (/\ last_op = "next_token"
   /\ ValuePosition(prev_reader)
   /\ HeadInBuffer(prev_reader, 0)
   /\ HeadByte \in UnrecognisedHeads)
    => /\ result = "AZ_ERROR_UNEXPECTED_CHAR"
       /\ cbor_reader.bytes_consumed = prev_reader.bytes_consumed
       /\ cbor_reader.total_bytes_consumed = prev_reader.total_bytes_consumed
       /\ cbor_reader.buffer_index = prev_reader.buffer_index
       /\ cbor_reader.cbor_buffer = prev_reader.cbor_buffer
       /\ cbor_reader.current_depth = prev_reader.current_depth
       /\ cbor_reader.az_cbor_stack = prev_reader.az_cbor_stack

(* A tag head was rejected where the second element of an array is read. *)
C26_Witness ==
  /\ last_op = "next_token"
  /\ prev_reader.kind = "AZ_CBOR_TOKEN_STRING"
  /\ ValuePosition(prev_reader)
  /\ HeadInBuffer(prev_reader, 0)
  /\ HeadByte = 223
  /\ result = "AZ_ERROR_UNEXPECTED_CHAR"
  /\ cbor_reader.current_depth = 1

(* C27: a byte string head (0x40..0x5F) at a value position is accepted
   with the framing of a text string: for a head 0x40 + ai with ai in
   0..23 whose ai payload bytes lie inside the current segment, next_token
   returns Ok and consumes the head and the payload. *)
C27_ByteStringAccepted ==
  \A ai \in 0..23 :
    (/\ last_op = "next_token"
     /\ ~prev_reader.failed
     /\ ValuePosition(prev_reader)
     /\ HeadInBuffer(prev_reader, ai)
     /\ HeadByte = 64 + ai)
      => /\ result = "AZ_OK"
         /\ cbor_reader.bytes_consumed = prev_reader.bytes_consumed + 1 + ai

(* C28: _az_cbor_stack_pop returns the kind of the item it removes: when an
   advance closes a container at a depth in 1..64, the value the pop
   returns is the low bit of the stack word before the shift (the kind of
   the container being closed, not of its parent), and afterwards the depth
   is one less and the word is shifted right by one. *)
C28_PopReturnsRemovedKind ==
  (/\ last_op = "next_token"
   /\ result = "AZ_OK"
   /\ cbor_reader.kind \in {"AZ_CBOR_TOKEN_END_OBJECT", "AZ_CBOR_TOKEN_END_ARRAY"}
   /\ prev_reader.current_depth \in 1.._az_MAX_cbor_STACK_SIZE)
    => /\ _az_cbor_stack_pop_value(prev_reader) = _az_cbor_stack_peek(prev_reader)
       /\ cbor_reader.current_depth = prev_reader.current_depth - 1
       /\ cbor_reader.az_cbor_stack = ShiftRight(prev_reader.az_cbor_stack)

(* The stack item that stands for a container recorded as frame f. *)
ItemOf(f) == IF f.obj THEN _az_CBOR_STACK_OBJECT ELSE _az_CBOR_STACK_ARRAY

(* C29: the bit stack is last in, first out. In every state reached by
   pushes and pops that keep the depth in 0..64: when the depth is above 0,
   peek returns the kind of the most recently pushed item that has not been
   popped (and so does each bit below it, for the items pushed before);
   and below depth 64 a push of either kind immediately followed by a pop
   restores the stack word and the depth. *)
C29_StackIsLifo ==
  (/\ ~cbor_reader.pushed_full
   /\ ~cbor_reader.popped_empty
   /\ cbor_reader.current_depth \in 0.._az_MAX_cbor_STACK_SIZE)
    => /\ Len(cbor_reader.frames) = cbor_reader.current_depth
       /\ cbor_reader.current_depth > 0
            => _az_cbor_stack_peek(cbor_reader)
                 = ItemOf(cbor_reader.frames[cbor_reader.current_depth])
       /\ \A i \in 0..(cbor_reader.current_depth - 1) :
            (i \in cbor_reader.az_cbor_stack)
              <=> cbor_reader.frames[cbor_reader.current_depth - i].obj
       /\ cbor_reader.current_depth < _az_MAX_cbor_STACK_SIZE
            => \A item \in {_az_CBOR_STACK_ARRAY, _az_CBOR_STACK_OBJECT} :
                 /\ _az_cbor_stack_pop(_az_cbor_stack_push(cbor_reader, item)).az_cbor_stack
                      = cbor_reader.az_cbor_stack
                 /\ _az_cbor_stack_pop(_az_cbor_stack_push(cbor_reader, item)).current_depth
                      = cbor_reader.current_depth

(* An advance has closed an array that was open inside a map: the pop has
   uncovered the map, two levels down, under an array. *)
C29_Witness ==
  /\ last_op = "next_token"
  /\ result = "AZ_OK"
  /\ cbor_reader.kind = "AZ_CBOR_TOKEN_END_ARRAY"
  /\ ~cbor_reader.failed
  /\ ~cbor_reader.pushed_full
  /\ ~cbor_reader.popped_empty
  /\ cbor_reader.current_depth = 2
  /\ prev_reader.current_depth = 3
  /\ cbor_reader.frames[1].obj = FALSE
  /\ cbor_reader.frames[2].obj = TRUE
  /\ _az_cbor_stack_peek(cbor_reader) = _az_CBOR_STACK_OBJECT

(* C30: a PropertyName token is produced only from a text string head: when
   a map has pairs to come and the byte at the key position, inside the
   current segment, is not in 0x60..0x7F, next_token does not return Ok
   with a token of kind PropertyName. *)
C30_PropertyNameFromTextOnly ==
  (/\ last_op = "next_token"
   /\ ~prev_reader.failed
   /\ KeyPosition(prev_reader)
   /\ HeadInBuffer(prev_reader, 0)
   /\ HeadByte \notin 96..127)
    => ~(result = "AZ_OK" /\ cbor_reader.kind = "AZ_CBOR_TOKEN_PROPERTY_NAME")

(* The reader r has no segment after the current one. *)
LastSegment(r) == r.buffer_index >= r.number_of_buffers - 1

(* The segment after the current one of r. *)
NextSegment(r) == r.cbor_buffers[r.buffer_index + 2]

(* What _az_cbor_reader_get_next_buffer must do when called on r. *)
NextBufferContract(r, skip_whitespace, g) ==
  IF LastSegment(r) \/ az_span_size(NextSegment(r)) < 1
  THEN g.res = "AZ_ERROR_UNEXPECTED_END"
  ELSE /\ g.res = "AZ_OK"
       /\ g.r.buffer_index = r.buffer_index + 1
       /\ g.r.bytes_consumed = 0
       /\ g.r.cbor_buffer = NextSegment(r)
       /\ g.remaining = NextSegment(r)
       /\ IF ~skip_whitespace /\ r.start_buffer_index = -1
          THEN /\ g.r.start_buffer_index = r.buffer_index
               /\ g.r.start_buffer_offset = r.bytes_consumed
          ELSE /\ g.r.start_buffer_index = r.start_buffer_index
               /\ g.r.start_buffer_offset = r.start_buffer_offset

(* C31: _az_cbor_reader_get_next_buffer fails with UnexpectedEnd when the
   reader has a single segment, when the current segment is the last one,
   or when the next segment is empty; otherwise it increments buffer_index
   by one, resets bytes_consumed to 0 and, when skip_whitespace is false
   and start_buffer_index is still -1, records as start_buffer_index and
   start_buffer_offset the segment and the offset the reader was at (with
   skip_whitespace true it records nothing). An Ok advance that moved to
   the next segment has recorded the position at which it started. *)
C31_NextBufferContract ==
  /\ \A skip_whitespace \in BOOLEAN :
       /\ NextBufferContract(cbor_reader, skip_whitespace,
            _az_cbor_reader_get_next_buffer(cbor_reader, skip_whitespace))
       /\ NextBufferContract(prev_reader, skip_whitespace,
            _az_cbor_reader_get_next_buffer(prev_reader, skip_whitespace))
  /\ (/\ last_op = "next_token"
      /\ result = "AZ_OK"
      /\ cbor_reader.buffer_index > prev_reader.buffer_index)
       => /\ cbor_reader.start_buffer_index = prev_reader.buffer_index
          /\ cbor_reader.start_buffer_offset = prev_reader.bytes_consumed

(* An Ok advance has moved from the first of three segments to the second,
   with the start of its token recorded, and a segment is left to move to. *)
C31_Witness ==
  /\ last_op = "next_token"
  /\ result = "AZ_OK"
  /\ cbor_reader.number_of_buffers = 3
  /\ prev_reader.buffer_index = 0
  /\ cbor_reader.buffer_index = 1
  /\ cbor_reader.start_buffer_index = 0
  /\ cbor_reader.bytes_consumed > 0
  /\ ~LastSegment(cbor_reader)
  /\ az_span_size(NextSegment(cbor_reader)) >= 1

(* The bytes of the span s. *)
SpanBytes(s) == [i \in 1..az_span_size(s) |-> mem[s.ptr + i - 1]]

(* The bytes of the segments of r from the i-th one on. *)
RECURSIVE LaterBytes(_, _)
LaterBytes(r, i) ==
  IF i > r.number_of_buffers THEN <<>>
  ELSE SpanBytes(r.cbor_buffers[i]) \o LaterBytes(r, i + 1)

(* The input r has not consumed: the rest of the current segment and the
   segments after it. *)
Rest(r) ==
  SubSeq(SpanBytes(r.cbor_buffer), r.bytes_consumed + 1, az_span_size(r.cbor_buffer))
    \o LaterBytes(r, r.buffer_index + 2)

(* The grammar of a textual number (an optional sign, then 0 or digits that
   do not start with 0, then an optional point and digits, then an optional
   e or E with an optional sign and digits), as the state reached after
   each byte: 0 at the start, 1 after the sign,
   2 after a leading 0, 3 in the integer digits, 4 after the point, 5 in the
   fraction digits, 6 after the e, 7 after the sign of the exponent, 8 in
   the exponent digits, 9 when the text is not a number. *)
NumberStep(q, b) ==
  IF q \in {0, 1} THEN (IF b = 48 THEN 2 ELSE IF b \in 49..57 THEN 3
                        ELSE IF b = 45 /\ q = 0 THEN 1 ELSE 9)
  ELSE IF q \in {2, 3} THEN (IF b \in 48..57 /\ q = 3 THEN 3 ELSE IF b = 46 THEN 4
                             ELSE IF b \in {69, 101} THEN 6 ELSE 9)
  ELSE IF q \in {4, 5} THEN (IF b \in 48..57 THEN 5
                             ELSE IF b \in {69, 101} /\ q = 5 THEN 6 ELSE 9)
  ELSE IF q = 6 THEN (IF b \in {43, 45} THEN 7 ELSE IF b \in 48..57 THEN 8 ELSE 9)
  ELSE IF q \in {7, 8} THEN (IF b \in 48..57 THEN 8 ELSE 9)
  ELSE 9

(* The state reached at the end of s, from the state q before its i-th byte. *)
RECURSIVE NumberState(_, _, _)
NumberState(s, i, q) ==
  IF q = 9 \/ i > Len(s) THEN q ELSE NumberState(s, i + 1, NumberStep(q, s[i]))

(* The text s is one complete number. *)
IsNumberText(s) == NumberState(s, 1, 0) \in {2, 3, 5, 8}

(* The last call was an advance from a value position at which a textual
   number starts that runs up to the end of the input. *)
NumberToEndRead ==
  /\ last_op = "next_token"
  /\ ~prev_reader.failed
  /\ ValuePosition(prev_reader)
  /\ HeadInBuffer(prev_reader, 0)
  /\ IsNumberText(Rest(prev_reader))

(* C32: a textual number that runs up to the end of the input is a valid
   end state only when the payload is a single value: when no container is
   open next_token returns Ok with kind Number, and when the number is
   inside the root container it returns UnexpectedEnd. *)
C32_NumberAtEndOfInput ==
  NumberToEndRead =>
    IF prev_reader.current_depth = 0
    THEN result = "AZ_OK" /\ cbor_reader.kind = "AZ_CBOR_TOKEN_NUMBER"
    ELSE result = "AZ_ERROR_UNEXPECTED_END"

(* C33: in every state reached by next_token and skip_children calls,
   bytes_consumed is at most the length of the current segment, and every
   byte the reader has inspected (the head byte read at the start of an
   advance, the length bytes read while decoding a header) lay inside the
   segment it was read from. *)
C33_ReadsStayInSegment ==
  result # "CRASH" =>
    /\ cbor_reader.bytes_consumed <= az_span_size(cbor_reader.cbor_buffer)
    /\ ~cbor_reader.oob
    /\ ~cbor_reader.nullread

(* The next advance of r closes the innermost container: one is open, no
   element of it is left and r is not between a name and its value. *)
ClosePosition(r) ==
  /\ r.current_depth > 0
  /\ r.kind \notin {"AZ_CBOR_TOKEN_NONE", "AZ_CBOR_TOKEN_PROPERTY_NAME"}
  /\ ElementAt(r.element_len, r.current_depth) = 0

(* C34: container tokens are properly nested. Over any sequence of Ok
   advances, every EndObject closes a container opened by BeginObject and
   every EndArray one opened by BeginArray; the container kind recorded for
   each depth from 1 to the current one agrees with the bit of the stack
   for that depth; and an advance that closes a container never fails on
   the kind test of _az_cbor_reader_process_container_end: it returns Ok
   with the End token of the kind on top of the stack. *)
C34_ContainersProperlyNested ==
  /\ ~cbor_reader.failed =>
       /\ \A d \in 1..cbor_reader.current_depth :
            ElementAt(cbor_reader.element_type, d)
              = (IF (cbor_reader.current_depth - d) \in cbor_reader.az_cbor_stack
                 THEN 160 ELSE 128)
       /\ (last_op = "next_token" /\ result = "AZ_OK" /\ cbor_reader.kind \in EndKinds)
            => /\ prev_reader.frames # <<>>
               /\ cbor_reader.closed.obj = (cbor_reader.kind = "AZ_CBOR_TOKEN_END_OBJECT")
  /\ (/\ last_op = "next_token"
      /\ result # "CRASH"
      /\ ~prev_reader.failed
      /\ ClosePosition(prev_reader))
       => /\ result = "AZ_OK"
          /\ cbor_reader.kind = (IF _az_cbor_stack_peek(prev_reader) = _az_CBOR_STACK_OBJECT
                                 THEN "AZ_CBOR_TOKEN_END_OBJECT"
                                 ELSE "AZ_CBOR_TOKEN_END_ARRAY")

(* An Ok advance has closed a map that was open inside an array inside a
   map, after other Ok advances only. *)
C34_Witness ==
  /\ last_op = "next_token"
  /\ result = "AZ_OK"
  /\ ~cbor_reader.failed
  /\ cbor_reader.kind = "AZ_CBOR_TOKEN_END_OBJECT"
  /\ cbor_reader.closed.obj
  /\ ClosePosition(prev_reader)
  /\ prev_reader.current_depth >= 2
  /\ _az_cbor_stack_peek(cbor_reader) = _az_CBOR_STACK_ARRAY


(* The last call was an Ok advance that moved the read position forward (to
   a later segment, or further in the same segment) or closed a container. *)
OkAdvanceProgressed ==
  \/ cbor_reader.buffer_index > prev_reader.buffer_index
  \/ /\ cbor_reader.buffer_index = prev_reader.buffer_index
     /\ cbor_reader.bytes_consumed > prev_reader.bytes_consumed
  \/ cbor_reader.current_depth = prev_reader.current_depth - 1

(* No call can return any more: the process has ended, or the next advance
   reads memory that is not mapped. *)
CallsEnded ==
  \/ result = "CRASH"
  \/ \A nv \in NullReadOutcomes :
       Advance(mem, BeginCall(cbor_reader, nv)).r.unmapped

(* The caller has no reason to call again, or cannot: the last call did not
   return Ok, or no call can return. *)
CallerIdle == result # "AZ_OK" \/ CallsEnded

(* The caller advances token by token and does not stop while the calls
   return Ok: weak fairness of the calls made after an Ok result, written
   out with CallerIdle where they are not enabled. *)
SpecProgress ==
  Init /\ [][NextTokens]_vars /\ ([]<>CallerIdle \/ []<><<NextTokens>>_vars)

OkAdvancesProgress ==
  (last_op = "next_token" /\ result = "AZ_OK") => OkAdvanceProgressed

(* C35: every next_token call that returns Ok advances the read position
   (buffer_index increases, or bytes_consumed increases within the same
   segment) or decreases the depth by one; and repeated next_token calls
   eventually return a result other than Ok. *)
C35_ProgressAndTermination ==
  /\ []OkAdvancesProgress
  /\ <>(last_op = "next_token" /\ (result # "AZ_OK" \/ CallsEnded))

(* Repeated advances over two segments have returned Begin and End tokens
   and then ReaderDone. *)
C35_Witness ==
  /\ last_op = "next_token"
  /\ IsReaderDone(result)
  /\ ~cbor_reader.failed
  /\ Chunked
  /\ cbor_reader.buffer_index >= 1
  /\ Len(cbor_reader.tokens) >= 4
  /\ cbor_reader.kind \in EndKinds

(* C36: ReaderDone is stable. Once a next_token call has returned
   ReaderDone, the next call returns ReaderDone as well and changes neither
   the token kind, the depth, buffer_index, bytes_consumed nor
   total_bytes_consumed; hence so does every later one. *)
C36_ReaderDoneIsStable ==
  [][(last_op = "next_token" /\ IsReaderDone(result))
       => /\ IsReaderDone(result')
          /\ cbor_reader'.kind = cbor_reader.kind
          /\ cbor_reader'.current_depth = cbor_reader.current_depth
          /\ cbor_reader'.buffer_index = cbor_reader.buffer_index
          /\ cbor_reader'.bytes_consumed = cbor_reader.bytes_consumed
          /\ cbor_reader'.total_bytes_consumed = cbor_reader.total_bytes_consumed]_vars

(* A next_token call made after ReaderDone has returned ReaderDone again:
   the call found the reader as the call before it had left it, with the
   buffer indices of the token already cleared. *)
C36_Witness ==
  /\ last_op = "next_token"
  /\ IsReaderDone(result)
  /\ ~cbor_reader.failed
  /\ prev_reader = cbor_reader
  /\ cbor_reader.end_buffer_index = -1
  /\ Len(cbor_reader.tokens) >= 2

(* C37: emitting EndObject or EndArray consumes no input: the advance that
   returns an End token leaves buffer_index, bytes_consumed and
   total_bytes_consumed unchanged and decreases the depth by exactly one. *)
C37_EndConsumesNothing ==
  (/\ last_op = "next_token"
   /\ result = "AZ_OK"
   /\ cbor_reader.kind \in EndKinds)
    => /\ cbor_reader.buffer_index = prev_reader.buffer_index
       /\ cbor_reader.bytes_consumed = prev_reader.bytes_consumed
       /\ cbor_reader.total_bytes_consumed = prev_reader.total_bytes_consumed
       /\ cbor_reader.current_depth = prev_reader.current_depth - 1

(* An advance has returned the End token of a map with one pair that was
   open inside an array. *)
C37_Witness ==
  /\ last_op = "next_token"
  /\ result = "AZ_OK"
  /\ ~cbor_reader.failed
  /\ cbor_reader.kind = "AZ_CBOR_TOKEN_END_OBJECT"
  /\ cbor_reader.closed.names = 1
  /\ cbor_reader.current_depth >= 1
  /\ cbor_reader.bytes_consumed = prev_reader.bytes_consumed
  /\ _az_cbor_stack_peek(cbor_reader) = _az_CBOR_STACK_ARRAY

(* C38: in a run of Ok advances a PropertyName token is returned only
   while the innermost open container is a map (the depth is at least 1 and
   the top of the bit stack is Object), never at depth 0 or directly inside
   an array; and the token returned after a PropertyName is never a
   PropertyName, an EndObject or an EndArray. *)
C38_PropertyNameOnlyInMap ==
  ~cbor_reader.failed =>
    /\ (result = "AZ_OK" /\ cbor_reader.kind = "AZ_CBOR_TOKEN_PROPERTY_NAME")
         => /\ cbor_reader.current_depth >= 1
            /\ _az_cbor_stack_peek(cbor_reader) = _az_CBOR_STACK_OBJECT
            /\ cbor_reader.frames # <<>>
            /\ cbor_reader.frames[Len(cbor_reader.frames)].obj
    /\ \A i \in 1..(Len(cbor_reader.tokens) - 1) :
         cbor_reader.tokens[i] = "AZ_CBOR_TOKEN_PROPERTY_NAME"
           => cbor_reader.tokens[i + 1] \notin {"AZ_CBOR_TOKEN_PROPERTY_NAME",
                                                "AZ_CBOR_TOKEN_END_OBJECT",
                                                "AZ_CBOR_TOKEN_END_ARRAY"}

(* The second name of a map has been returned, after the first name and
   its value. *)
C38_Witness ==
  /\ last_op = "next_token"
  /\ result = "AZ_OK"
  /\ ~cbor_reader.failed
  /\ cbor_reader.kind = "AZ_CBOR_TOKEN_PROPERTY_NAME"
  /\ prev_reader.kind \notin {"AZ_CBOR_TOKEN_BEGIN_OBJECT", "AZ_CBOR_TOKEN_PROPERTY_NAME"}
  /\ cbor_reader.frames[Len(cbor_reader.frames)].names = 2
  /\ cbor_reader.frames[Len(cbor_reader.frames)].values = 1

====
